---------------------------- MODULE Spec2Model ----------------------------
(***************************************************************************)
(* Script execution and scheduling subsystem of the administration         *)
(* dashboard: the parameter sanitizer and argument-vector builder of       *)
(* PowerShellExecutor, the cron command builder of ScheduleManager, the    *)
(* ScheduleManager mutators over the crontab job store, and the two        *)
(* execution endpoints with PowerShellExecutor's synchronous and streamed  *)
(* execution of a script's process.                                        *)
(*                                                                         *)
(* Text is modelled as a sequence of one-character strings, so that        *)
(* filtering, escaping, joining and re-parsing are computed, not assumed.  *)
(***************************************************************************)
EXTENDS Integers, Sequences, FiniteSets, TLC

VARIABLES
    parameters,   \* builders: the parameter map handed to both builders
    argv,         \* builders: result of PowerShellExecutor.build_command
    command,      \* builders: result of ScheduleManager._build_command
    built,        \* builders: which builders have run on `parameters`
    cron,         \* ScheduleManager.cron: the in-memory job table (CronTab)
    disk,         \* the user's crontab as last written by cron.write()
    ledger,       \* ExecutionDatabase: ids of the rows of table schedules
    nextRowId,    \* ExecutionDatabase: next AUTOINCREMENT id of schedules
    last,         \* the last ScheduleManager or executor call made and the
                  \* result it returned
    track,        \* history: whether all ScheduleManager calls so far were
                  \* create/update calls on one schedule id, and how they went
    req,          \* the execution request posted to /api/execute and to
                  \* /api/execute/stream, and how the script's process behaves
    sync,         \* /api/execute handling the request: position, the states
                  \* execute_script went through, its subprocess, its result
    stream,       \* /api/execute/stream handling the request: position of
                  \* the generator, its subprocess, the events yielded so far
    executions,   \* ExecutionDatabase: the rows of table executions
    listing,      \* the last create_schedule call's arguments and what
                  \* list_schedules returned after it
    logs,         \* the files of log_directory: for each file name, its lines
    now,          \* the calendar day it is
    threads,      \* the position of each thread that is inside create_schedule
                  \* of the one ScheduleManager, and the job it holds
    pipes         \* execute_script_stream's process with its two pipes: what
                  \* it has still to write, what the pipes hold, what was read

vars == <<parameters, argv, command, built, cron, disk, ledger, nextRowId, last, track,
          req, sync, stream, executions, listing, logs, now, threads, pipes>>

buildVars == <<parameters, argv, command, built>>
schedVars == <<cron, disk, ledger, nextRowId, last, track>>
runVars == <<req, sync, stream, executions>>
hostVars == <<logs, now, threads, pipes>>

-----------------------------------------------------------------------------
(* Bounds of the model *)

MaxStrLen == 2      \* longest scalar parameter value, in characters
MaxListLen == 2     \* longest list parameter value, in elements
MaxParams == 2      \* most entries of a parameter map
MaxSchedules == 1   \* schedule ids are 1..MaxSchedules
MaxLines == 2       \* most lines a script's process writes to stdout
MaxTime == 4        \* latest moment, in seconds after the start, at which a
                    \* process closes its stdout or exits by itself
MaxWrites == 3      \* most writes and closes a streamed process does
PipeCapacity == 2   \* lines, or blocks, that a pipe holds before a write waits
MaxThreads == 2     \* threads that call the one ScheduleManager at a time
MaxDays == 2        \* days that pass after the day the manager is constructed
MaxLogLines == 2    \* most lines of one log file, and most lines asked for

-----------------------------------------------------------------------------
(* Text helpers *)

RECURSIVE Concat(_)
Concat(ss) == IF ss = <<>> THEN <<>> ELSE Head(ss) \o Concat(Tail(ss))

RECURSIVE Join(_, _)
\* sep.join(ss)
Join(sep, ss) ==
    IF ss = <<>> THEN <<>>
    ELSE IF Len(ss) = 1 THEN ss[1]
    ELSE ss[1] \o sep \o Join(sep, Tail(ss))

\* s.replace(c, '')
Remove(s, c) == SelectSeq(s, LAMBDA x : x # c)

RECURSIVE ReplaceChar(_, _, _)
\* s.replace(c, r) for a one-character c
ReplaceChar(s, c, r) ==
    IF s = <<>> THEN <<>>
    ELSE (IF Head(s) = c THEN r ELSE <<Head(s)>>) \o ReplaceChar(Tail(s), c, r)

Digit(n) == CASE n = 0 -> "0" [] n = 1 -> "1" [] n = 2 -> "2" [] n = 3 -> "3"
              [] n = 4 -> "4" [] n = 5 -> "5" [] n = 6 -> "6" [] n = 7 -> "7"
              [] n = 8 -> "8" [] n = 9 -> "9"

RECURSIVE IntToStr(_)
\* str(n) for a natural number n
IntToStr(n) == IF n < 10 THEN <<Digit(n)>> ELSE IntToStr(n \div 10) \o <<Digit(n % 10)>>

\* str(value) of a scalar parameter value
Str(v) == IF v.kind = "int" THEN IntToStr(v.n) ELSE v.s

RECURSIVE Strings(_, _)
\* all texts over alphabet A of length at most n
Strings(A, n) ==
    IF n = 0 THEN {<<>>}
    ELSE LET shorter == Strings(A, n - 1)
         IN  shorter \cup {Append(s, c) : s \in shorter, c \in A}

RECURSIVE Lists(_, _)
\* all sequences over S of length at most n
Lists(S, n) ==
    IF n = 0 THEN {<<>>}
    ELSE LET shorter == Lists(S, n - 1)
         IN  shorter \cup {Append(l, x) : l \in shorter, x \in S}

RECURSIVE SplitOnScan(_, _, _, _, _)
SplitOnScan(s, c, i, out, cur) ==
    IF i > Len(s) THEN Append(out, cur)
    ELSE IF s[i] = c THEN SplitOnScan(s, c, i + 1, Append(out, cur), <<>>)
    ELSE SplitOnScan(s, c, i + 1, out, Append(cur, s[i]))

\* s.split(c) for a one-character c
SplitOn(s, c) == SplitOnScan(s, c, 1, <<>>, <<>>)

\* position of the last c in s, or 0
LastIndexOf(s, c) ==
    LET hits == {i \in 1..Len(s) : s[i] = c}
    IN  IF hits = {} THEN 0 ELSE CHOOSE i \in hits : \A h \in hits : h <= i

-----------------------------------------------------------------------------
(* Parameter values: None, a boolean, a text, a number, or a list of texts *)

NoneValue == [kind |-> "none"]
BoolValue(b) == [kind |-> "bool", b |-> b]
StrValue(s) == [kind |-> "str", s |-> s]
IntValue(n) == [kind |-> "int", n |-> n]
ListValue(items) == [kind |-> "list", items |-> items]

\* characters the modelled values are drawn from: a harmless letter, a
\* denylisted shell metacharacter, and the quote the cron builder escapes
Alphabet == {"a", ";", "'"}

ScalarValues ==
    {StrValue(s) : s \in Strings(Alphabet, MaxStrLen)} \cup {IntValue(0), IntValue(12)}

ListValues ==
    {ListValue(l) : l \in Lists({StrValue(s) : s \in Strings(Alphabet, 1)}, MaxListLen)}

Values == {NoneValue, BoolValue(TRUE), BoolValue(FALSE)} \cup ScalarValues \cup ListValues

\* parameter names: an identifier, and one carrying a metacharacter
Keys == {<<"k">>, <<"n", ";">>}

\* the orders in which distinct names can appear in a map
KeyOrders ==
    {ks \in Lists(Keys, MaxParams) :
        \A i, j \in 1..Len(ks) : i # j => ks[i] # ks[j]}

\* a parameter map is a dict: ordered, keys distinct
ParameterMaps ==
    UNION {{[i \in 1..Len(ks) |-> <<ks[i], vs[i]>>] : vs \in [1..Len(ks) -> Values]} :
              ks \in KeyOrders}

-----------------------------------------------------------------------------
(* PowerShellExecutor: sanitizer and argument vector *)

\* the grave accent cannot be written inside a string of this notation: the
\* character is represented by the one-element text "GRAVE"
DANGEROUS_CHARS == <<";", "|", "&", "$", "GRAVE", "<", ">", "(", ")", "\n", "\r">>

IdentChars ==
    {"a","b","c","d","e","f","g","h","i","j","k","l","m",
     "n","o","p","q","r","s","t","u","v","w","x","y","z",
     "A","B","C","D","E","F","G","H","I","J","K","L","M",
     "N","O","P","Q","R","S","T","U","V","W","X","Y","Z",
     "0","1","2","3","4","5","6","7","8","9","_"}

pwsh_path == <<"p", "w", "s", "h">>

RECURSIVE RemoveEach(_, _, _)
\* for char in chars[i..]: value_str = value_str.replace(char, '')
RemoveEach(value_str, chars, i) ==
    IF i > Len(chars) THEN value_str
    ELSE RemoveEach(Remove(value_str, chars[i]), chars, i + 1)

sanitize_parameter(value) ==
    IF value.kind = "none" THEN <<>>
    ELSE RemoveEach(Str(value), DANGEROUS_CHARS, 1)

\* re.sub(r'[^a-zA-Z0-9_]', '', key)
SanitizeName(key) == SelectSeq(key, LAMBDA c : c \in IdentChars)

\* build_command's loop body without the "if sanitized_value:" test
ArgvTokens_KeepEmpty(key, value) ==
    LET flag == <<"-">> \o SanitizeName(key)
    IN  IF value.kind = "bool"
        THEN IF value.b THEN <<flag>> ELSE <<>>
        ELSE IF value.kind = "list"
        THEN <<flag, Join(<<",">>,
                 [i \in 1..Len(value.items) |-> sanitize_parameter(value.items[i])])>>
        ELSE <<flag, sanitize_parameter(value)>>

\* what one iteration of build_command's loop appends to cmd
ArgvTokens(key, value) ==
    LET param_name == SanitizeName(key)
        flag == <<"-">> \o param_name
    IN  IF value.kind = "bool"
        THEN IF value.b THEN <<flag>> ELSE <<>>
        ELSE IF value.kind = "list"
        THEN LET sanitized_values ==
                     [i \in 1..Len(value.items) |-> sanitize_parameter(value.items[i])]
             IN  <<flag, Join(<<",">>, sanitized_values)>>
        ELSE LET sanitized_value == sanitize_parameter(value)
             IN  IF sanitized_value # <<>> THEN <<flag, sanitized_value>> ELSE <<>>

RECURSIVE ArgvLoop(_, _, _)
ArgvLoop(cmd, params, i) ==
    IF i > Len(params) THEN cmd
    ELSE ArgvLoop(cmd \o ArgvTokens(params[i][1], params[i][2]), params, i + 1)

ArgvBase(script_path) ==
    << pwsh_path,
       <<"-","N","o","P","r","o","f","i","l","e">>,
       <<"-","E","x","e","c","u","t","i","o","n","P","o","l","i","c","y">>,
       <<"B","y","p","a","s","s">>,
       <<"-","F","i","l","e">>,
       script_path >>

build_command(script_path, params) == ArgvLoop(ArgvBase(script_path), params, 1)

-----------------------------------------------------------------------------
(* ScheduleManager: the cron command *)

scripts_directory == <<"/","s">>
log_directory == <<"/","l">>

\* pathlib: directory / name; an absolute name replaces the directory
PathJoin(dir, name) ==
    IF name = <<>> THEN dir
    ELSE IF Head(name) = "/" THEN name
    ELSE dir \o <<"/">> \o name

\* the text of n, padded with zeros on the left to at least w characters
ZeroPad(n, w) ==
    LET s == IntToStr(n)
    IN  IF Len(s) >= w THEN s ELSE [i \in 1..(w - Len(s)) |-> "0"] \o s

\* datetime.strftime('%Y%m%d')
strftime_Ymd(date) == ZeroPad(date.y, 4) \o ZeroPad(date.m, 2) \o ZeroPad(date.d, 2)

\* what one iteration of _build_command's loop appends to param_str
ParamFragment(key, value) ==
    IF value.kind = "none" \/ value = StrValue(<<>>) THEN <<>>
    ELSE IF value.kind = "bool"
    THEN IF value.b THEN <<" ","-">> \o key ELSE <<>>
    ELSE IF value.kind = "list"
    THEN <<" ","-">> \o key \o <<" ">>
            \o Join(<<",">>, [i \in 1..Len(value.items) |-> Str(value.items[i])])
    ELSE LET escaped_value == ReplaceChar(Str(value), "'", <<"'","\\","'","'">>)
         IN  <<" ","-">> \o key \o <<" ", "'">> \o escaped_value \o <<"'">>

RECURSIVE ParamStr(_, _)
\* param_str after the loop has handled params[i..]
ParamStr(params, i) ==
    IF i > Len(params) THEN <<>>
    ELSE ParamFragment(params[i][1], params[i][2]) \o ParamStr(params, i + 1)

LogFile(schedule_id, date) ==
    PathJoin(log_directory,
             <<"s","c","h","e","d","u","l","e","_">> \o IntToStr(schedule_id) \o <<"_">>
                 \o strftime_Ymd(date) \o <<".","l","o","g">>)

_build_command(script_path, params, schedule_id, date) ==
    LET full_script_path == PathJoin(scripts_directory, script_path)
        param_str == ParamStr(params, 1)
        log_file == LogFile(schedule_id, date)
    IN  pwsh_path \o <<" ","-","N","o","P","r","o","f","i","l","e"," ","-","E","x","e","c","u","t","i","o","n","P","o","l","i","c","y"," ","B","y","p","a","s","s"," ">>
        \o <<"-","F","i","l","e"," ","'">> \o full_script_path \o <<"'">> \o param_str \o <<" ">>
        \o <<">",">"," ","'">> \o log_file \o <<"'"," ","2",">","&","1">>

-----------------------------------------------------------------------------
(* The shell that cron hands a job's command to: POSIX token recognition.  *)
(* A token is a word (with the text the shell passes on as the argument,   *)
(* and whether that text was taken literally) or an operator.              *)

ShOperatorChars == {";", "|", "&", "<", ">", "(", ")", "\n"}
ShBlankChars == {" ", "\t"}
\* characters that start an expansion, a double quote, a pattern or a comment
ShActiveChars == {"$", "GRAVE", "\"", "*", "?", "[", "~", "#"}

ShWord(text, literal) == [type |-> "word", text |-> text, literal |-> literal]
ShOp(c) == [type |-> "op", text |-> <<c>>]

\* index of the first c in s at or after i, or 0
RECURSIVE IndexFrom(_, _, _)
IndexFrom(s, c, i) ==
    IF i > Len(s) THEN 0
    ELSE IF s[i] = c THEN i
    ELSE IndexFrom(s, c, i + 1)

\* characters that token recognition treats in a way of their own
ShSpecialChars == ShBlankChars \cup ShOperatorChars \cup ShActiveChars \cup {"'", "\\"}

\* first position at or after i that holds such a character (Len(s) + 1 if
\* none): the characters before it are taken into the word as they are
ShPlainEnd(s, i) ==
    LET hits == {j \in i..Len(s) : s[j] \in ShSpecialChars}
    IN  IF hits = {} THEN Len(s) + 1 ELSE CHOOSE j \in hits : \A h \in hits : j <= h

RECURSIVE ShScan(_, _, _, _, _, _)
\* s from position i on; cur is the word being collected (inWord says there
\* is one, possibly empty), literal whether it has been literal so far
ShScan(s, i, out, cur, inWord, literal) ==
    LET flushed == IF inWord THEN Append(out, ShWord(cur, literal)) ELSE out
    IN  IF i > Len(s) THEN flushed
        ELSE IF s[i] \in ShBlankChars
        THEN ShScan(s, i + 1, flushed, <<>>, FALSE, TRUE)
        ELSE IF s[i] \in ShOperatorChars
        THEN ShScan(s, i + 1, Append(flushed, ShOp(s[i])), <<>>, FALSE, TRUE)
        ELSE IF s[i] = "'"
        THEN LET close == IndexFrom(s, "'", i + 1)
             IN  IF close = 0
                 THEN Append(flushed, [type |-> "unterminated"])
                 ELSE ShScan(s, close + 1, out,
                             cur \o SubSeq(s, i + 1, close - 1), TRUE, literal)
        ELSE IF s[i] = "\\"
        THEN IF i = Len(s)
             THEN ShScan(s, i + 1, out, Append(cur, s[i]), TRUE, literal)
             ELSE ShScan(s, i + 2, out, Append(cur, s[i + 1]), TRUE, literal)
        ELSE IF s[i] \in ShActiveChars
        THEN ShScan(s, i + 1, out, Append(cur, s[i]), TRUE, FALSE)
        ELSE LET j == ShPlainEnd(s, i)
             IN  ShScan(s, j, out, cur \o SubSeq(s, i, j - 1), TRUE, literal)

ShTokens(s) == ShScan(s, 1, <<>>, <<>>, FALSE, TRUE)

-----------------------------------------------------------------------------
(* The crontab library as ScheduleManager uses it: a CronTab is the list   *)
(* of its jobs; a job has a comment, a command, five schedule fields and   *)
(* an enabled flag.  cron.write() replaces the user's crontab by the list. *)

IsBlank(c) == c \in {" ", "\t", "\n", "\r"}

RECURSIVE LStrip(_)
LStrip(s) == IF s # <<>> /\ IsBlank(Head(s)) THEN LStrip(Tail(s)) ELSE s

RECURSIVE RStrip(_)
RStrip(s) == IF s # <<>> /\ IsBlank(s[Len(s)]) THEN RStrip(SubSeq(s, 1, Len(s) - 1)) ELSE s

\* str.strip()
Strip(s) == RStrip(LStrip(s))

RECURSIVE SplitScan(_, _, _, _)
SplitScan(s, i, out, cur) ==
    LET flushed == IF cur # <<>> THEN Append(out, cur) ELSE out
    IN  IF i > Len(s) THEN flushed
        ELSE IF IsBlank(s[i]) THEN SplitScan(s, i + 1, flushed, <<>>)
        ELSE SplitScan(s, i + 1, out, Append(cur, s[i]))

\* str.split(): the maximal runs of non-blank characters
Split(s) == SplitScan(s, 1, <<>>, <<>>)

DigitChars == {"0", "1", "2", "3", "4", "5", "6", "7", "8", "9"}

DigitValue(c) == CHOOSE n \in 0..9 : Digit(n) = c

RECURSIVE ParseNat(_)
\* int(s) for a non-empty text of digits
ParseNat(s) == IF Len(s) = 1 THEN DigitValue(s[1])
               ELSE 10 * ParseNat(SubSeq(s, 1, Len(s) - 1)) + DigitValue(s[Len(s)])

\* the grammar of one schedule field, for the forms the model supplies: "*"
\* or a number within the range of the field (minute, hour, day of month,
\* month, day of week)
CronFieldOk(f, pos) ==
    \/ f = <<"*">>
    \/ /\ f # <<>>
       /\ \A i \in 1..Len(f) : f[i] \in DigitChars
       /\ ParseNat(f) >= <<0, 0, 1, 1, 0>>[pos]
       /\ ParseNat(f) <= <<59, 23, 31, 12, 7>>[pos]

\* what a parsed field renders as: a number is kept as an integer
CronFieldValue(f) == IF f = <<"*">> THEN f ELSE IntToStr(ParseNat(f))

DefaultSlices == [i \in 1..5 |-> <<"*">>]

RECURSIVE SetAllFrom(_, _, _)
\* CronItem.setall: the fields are parsed left to right into the job's
\* slices; a field the grammar rejects is left cleared and raises, leaving
\* the fields after it as they were
SetAllFrom(slices, parts, i) ==
    IF i > 5 THEN [ok |-> TRUE, slices |-> slices]
    ELSE IF CronFieldOk(parts[i], i)
    THEN SetAllFrom([slices EXCEPT ![i] = CronFieldValue(parts[i])], parts, i + 1)
    ELSE [ok |-> FALSE, slices |-> [slices EXCEPT ![i] = <<"*">>]]

setall(slices, cron_expression) ==
    LET parts == Split(cron_expression)
    IN  IF Len(parts) # 5 THEN [ok |-> FALSE, slices |-> slices]
        ELSE SetAllFrom(slices, parts, 1)

\* str(job.slices): the fields joined by blanks, or the nickname the library
\* has for that schedule
RenderSlices(slices) ==
    LET text == Join(<<" ">>, slices)
    IN  CASE text = <<"0"," ","*"," ","*"," ","*"," ","*">> -> <<"@","h","o","u","r","l","y">>
          [] text = <<"0"," ","0"," ","*"," ","*"," ","*">> -> <<"@","d","a","i","l","y">>
          [] text = <<"0"," ","0"," ","*"," ","*"," ","0">> -> <<"@","w","e","e","k","l","y">>
          [] text = <<"0"," ","0"," ","1"," ","*"," ","*">> -> <<"@","m","o","n","t","h","l","y">>
          [] text = <<"0"," ","0"," ","1"," ","1"," ","*">> -> <<"@","y","e","a","r","l","y">>
          [] OTHER -> text

\* the longest month has 31 days, February 29, the others 30
DaysInMonth(m) == IF m = 2 THEN 29 ELSE IF m \in {4, 6, 9, 11} THEN 30 ELSE 31

\* job.schedule().get_next() returns a date: it raises when no date matches,
\* which is the case of a day of the month that the given month never has
\* (with no day of the week given)
HasNextRun(slices) ==
    ~ /\ slices[3] # <<"*">>
      /\ slices[4] # <<"*">>
      /\ slices[5] = <<"*">>
      /\ ParseNat(slices[3]) > DaysInMonth(ParseNat(slices[4]))

\* cron.new(command=..., comment=...): the job as appended to the table
NewJob(cmd, comment) ==
    [comment |-> comment, command |-> Strip(cmd), slices |-> DefaultSlices, enabled |-> TRUE]

RemoveAt(seq, k) == SubSeq(seq, 1, k - 1) \o SubSeq(seq, k + 1, Len(seq))

-----------------------------------------------------------------------------
(* ScheduleManager *)

CRON_COMMENT_PREFIX == <<"M","3","6","5","_","A","D","M","I","N","_","D","A","S","H","B","O","A","R","D">>

_get_job_comment(schedule_id) == CRON_COMMENT_PREFIX \o <<"_">> \o IntToStr(schedule_id)

\* position in the table of the first job with the comment of schedule_id, or 0
_find_job(table, schedule_id) ==
    LET hits == {k \in 1..Len(table) : table[k].comment = _get_job_comment(schedule_id)}
    IN  IF hits = {} THEN 0 ELSE CHOOSE k \in hits : \A h \in hits : k <= h

IsPrefix(p, s) == Len(p) <= Len(s) /\ SubSeq(s, 1, Len(p)) = p

\* first position at or after i that holds no blank (Len(s) + 1 if none)
RECURSIVE SkipBlanks(_, _)
SkipBlanks(s, i) == IF i <= Len(s) /\ IsBlank(s[i]) THEN SkipBlanks(s, i + 1) ELSE i

\* the group of -File\s+'([^']+)' matched at position i of cmd, or <<>>
\* when the pattern does not match there (the group is never empty)
MatchFileAt(cmd, i) ==
    LET lit == <<"-","F","i","l","e">>
        j == i + Len(lit)
        k == SkipBlanks(cmd, j)
        close == IndexFrom(cmd, "'", k + 1)
    IN  IF /\ i + Len(lit) - 1 <= Len(cmd)
           /\ SubSeq(cmd, i, j - 1) = lit
           /\ k > j
           /\ k <= Len(cmd)
           /\ cmd[k] = "'"
           /\ close > k + 1
        THEN SubSeq(cmd, k + 1, close - 1)
        ELSE <<>>

\* Path(full_path).relative_to(scripts_directory), or full_path when it is
\* not below the directory
RelativeToScripts(full_path) ==
    IF full_path = scripts_directory THEN <<".">>
    ELSE IF IsPrefix(scripts_directory \o <<"/">>, full_path)
    THEN SubSeq(full_path, Len(scripts_directory) + 2, Len(full_path))
    ELSE full_path

_extract_script_from_command(cmd) ==
    LET hits == {i \in 1..Len(cmd) : MatchFileAt(cmd, i) # <<>>}
    IN  IF hits = {} THEN <<>>
        ELSE RelativeToScripts(MatchFileAt(cmd, CHOOSE i \in hits : \A h \in hits : i <= h))

\* an optional argument: None, or a value
None == [given |-> FALSE, v |-> <<>>]
NoneBool == [given |-> FALSE, v |-> FALSE]
Some(v) == [given |-> TRUE, v |-> v]

\* the call just made and what it returned.  fields: whether the call was
\* given a cron expression and whether that expression has five fields
Result(op, id, success, removed, error, fields, cmd) ==
    [op |-> op, id |-> id, success |-> success, removed |-> removed,
     error |-> error, fields |-> fields, command |-> cmd]

FieldCount(cron_expression) ==
    IF Len(Split(Strip(cron_expression))) = 5 THEN "five" ELSE "notfive"

\* the day the manager is constructed on
FirstDay == [y |-> 2026, m |-> 11, d |-> 2]

\* datetime.now(), as a calendar day: the day a command is built on
Today == now

\* delete_schedule that finds the job but leaves it in the table
delete_schedule_KeepJob(table, store, schedule_id, writeOk) ==
    LET removed == _find_job(table, schedule_id) # 0
    IN  IF removed /\ ~writeOk
        THEN [cron |-> table, disk |-> store,
              res |-> Result("delete", schedule_id, FALSE, FALSE, "write", "none", <<>>)]
        ELSE [cron |-> table, disk |-> IF removed THEN table ELSE store,
              res |-> Result("delete", schedule_id, TRUE, removed, "none", "none", <<>>)]

\* delete_schedule on table (self.cron) and store (the crontab on disk);
\* writeOk: whether cron.write() succeeds
delete_schedule(table, store, schedule_id, writeOk) ==
    LET k == _find_job(table, schedule_id)
        removed == k # 0
        table1 == IF removed THEN RemoveAt(table, k) ELSE table
    IN  IF removed /\ ~writeOk
        THEN [cron |-> table1, disk |-> store,
              res |-> Result("delete", schedule_id, FALSE, FALSE, "write", "none", <<>>)]
        ELSE [cron |-> table1, disk |-> IF removed THEN table1 ELSE store,
              res |-> Result("delete", schedule_id, TRUE, removed, "none", "none", <<>>)]

\* create_schedule that reports success without cron.write()
create_schedule_SkipWrite(table, store, schedule_id, script_path, cron_expression, params, enabled, deleteWriteOk, writeOk) ==
    IF Len(Split(Strip(cron_expression))) # 5
    THEN [cron |-> table, disk |-> store,
          res |-> Result("create", schedule_id, FALSE, FALSE, "fields", "notfive", <<>>)]
    ELSE LET del == delete_schedule(table, store, schedule_id, deleteWriteOk)
             cmd == _build_command(script_path, params, schedule_id, Today)
             job == NewJob(cmd, _get_job_comment(schedule_id))
             set == setall(job.slices, cron_expression)
             job1 == [job EXCEPT !.slices = set.slices]
             job2 == [job1 EXCEPT !.enabled = enabled]
             replaced == _find_job(table, schedule_id) # 0
         IN  IF ~set.ok
             THEN [cron |-> Append(del.cron, job1), disk |-> del.disk,
                   res |-> Result("create", schedule_id, FALSE, replaced,
                                  "grammar", "five", <<>>)]
             ELSE [cron |-> Append(del.cron, job2), disk |-> del.disk,
                   res |-> Result("create", schedule_id, TRUE, replaced,
                                  "none", "five", cmd)]

create_schedule(table, store, schedule_id, script_path, cron_expression, params, enabled, deleteWriteOk, writeOk) ==
    IF Len(Split(Strip(cron_expression))) # 5
    THEN [cron |-> table, disk |-> store,
          res |-> Result("create", schedule_id, FALSE, FALSE, "fields", "notfive", <<>>)]
    ELSE LET del == delete_schedule(table, store, schedule_id, deleteWriteOk)
             cmd == _build_command(script_path, params, schedule_id, Today)
             job == NewJob(cmd, _get_job_comment(schedule_id))
             set == setall(job.slices, cron_expression)
             job1 == [job EXCEPT !.slices = set.slices]
             job2 == [job1 EXCEPT !.enabled = enabled]
             replaced == _find_job(table, schedule_id) # 0
         IN  IF ~set.ok
             THEN [cron |-> Append(del.cron, job1), disk |-> del.disk,
                   res |-> Result("create", schedule_id, FALSE, replaced,
                                  "grammar", "five", <<>>)]
             ELSE IF ~writeOk
             THEN [cron |-> Append(del.cron, job2), disk |-> del.disk,
                   res |-> Result("create", schedule_id, FALSE, replaced,
                                  "write", "five", <<>>)]
             ELSE IF enabled /\ ~HasNextRun(job2.slices)
             THEN [cron |-> Append(del.cron, job2), disk |-> Append(del.cron, job2),
                   res |-> Result("create", schedule_id, FALSE, replaced,
                                  "next_run", "five", <<>>)]
             ELSE [cron |-> Append(del.cron, job2), disk |-> Append(del.cron, job2),
                   res |-> Result("create", schedule_id, TRUE, replaced,
                                  "none", "five", cmd)]

\* update_schedule; script_path, cron_expression, params and enabled are
\* optional arguments
update_schedule(table, store, schedule_id, script_path, cron_expression, params, enabled, writeOk) ==
    LET k == _find_job(table, schedule_id)
        \* "if cron_expression:" None and the empty text are no expression
        supplied == cron_expression.given /\ cron_expression.v # <<>>
        fields == IF supplied THEN FieldCount(cron_expression.v) ELSE "none"
    IN  IF k = 0
        THEN [cron |-> table, disk |-> store,
              res |-> Result("update", schedule_id, FALSE, FALSE, "notfound", fields, <<>>)]
        ELSE
        LET job == table[k]
            current_script ==
                IF script_path.given /\ script_path.v # <<>> THEN script_path.v
                ELSE _extract_script_from_command(job.command)
            job1 == IF script_path.given \/ params.given
                    THEN [job EXCEPT !.command =
                              Strip(_build_command(current_script,
                                                   IF params.given THEN params.v ELSE <<>>,
                                                   schedule_id, Today))]
                    ELSE job
            badCount == supplied /\ Len(Split(Strip(cron_expression.v))) # 5
            set == IF supplied /\ ~badCount
                   THEN setall(job1.slices, cron_expression.v)
                   ELSE [ok |-> TRUE, slices |-> job1.slices]
            job2 == [job1 EXCEPT !.slices = set.slices]
            job3 == IF enabled.given THEN [job2 EXCEPT !.enabled = enabled.v] ELSE job2
        IN  IF badCount
            THEN [cron |-> [table EXCEPT ![k] = job1], disk |-> store,
                  res |-> Result("update", schedule_id, FALSE, FALSE, "fields", fields, <<>>)]
            ELSE IF ~set.ok
            THEN [cron |-> [table EXCEPT ![k] = job2], disk |-> store,
                  res |-> Result("update", schedule_id, FALSE, FALSE, "grammar", fields, <<>>)]
            ELSE IF ~writeOk
            THEN [cron |-> [table EXCEPT ![k] = job3], disk |-> store,
                  res |-> Result("update", schedule_id, FALSE, FALSE, "write", fields, <<>>)]
            ELSE IF job3.enabled /\ ~HasNextRun(job3.slices)
            THEN [cron |-> [table EXCEPT ![k] = job3], disk |-> [table EXCEPT ![k] = job3],
                  res |-> Result("update", schedule_id, FALSE, FALSE, "next_run", fields, <<>>)]
            ELSE [cron |-> [table EXCEPT ![k] = job3], disk |-> [table EXCEPT ![k] = job3],
                  res |-> Result("update", schedule_id, TRUE, FALSE, "none", fields, <<>>)]

\* toggle_schedule that writes the table out when it finds no job
toggle_schedule_WriteNotFound(table, store, schedule_id, enabled, writeOk) ==
    LET k == _find_job(table, schedule_id)
    IN  IF k = 0
        THEN [cron |-> table, disk |-> table,
              res |-> Result("toggle", schedule_id, FALSE, FALSE, "notfound", "none", <<>>)]
        ELSE LET table1 == [table EXCEPT ![k].enabled = enabled]
             IN  [cron |-> table1, disk |-> IF writeOk THEN table1 ELSE store,
                  res |-> Result("toggle", schedule_id, writeOk, FALSE,
                                 IF writeOk THEN "none" ELSE "write", "none", <<>>)]

toggle_schedule(table, store, schedule_id, enabled, writeOk) ==
    LET k == _find_job(table, schedule_id)
    IN  IF k = 0
        THEN [cron |-> table, disk |-> store,
              res |-> Result("toggle", schedule_id, FALSE, FALSE, "notfound", "none", <<>>)]
        ELSE LET table1 == [table EXCEPT ![k].enabled = enabled]
             IN  IF ~writeOk
                 THEN [cron |-> table1, disk |-> store,
                       res |-> Result("toggle", schedule_id, FALSE, FALSE, "write", "none", <<>>)]
                 ELSE IF enabled /\ ~HasNextRun(table1[k].slices)
                 THEN [cron |-> table1, disk |-> table1,
                       res |-> Result("toggle", schedule_id, FALSE, FALSE, "next_run", "none", <<>>)]
                 ELSE [cron |-> table1, disk |-> table1,
                       res |-> Result("toggle", schedule_id, TRUE, FALSE, "none", "none", <<>>)]

\* str(job.schedule().get_next()); the date itself is not modelled
NextRunText == <<"n","e","x","t">>

\* the number validate_cron_expression passes to get_next
NextRunCount == 5

\* croniter's get_next(ret_type): its argument is the type of the result,
\* float or datetime (datetime when none is given), and anything else raises
\* TypeError; a schedule that no date matches raises too
get_next(slices, ret_type) ==
    IF ~ \/ ret_type.kind = "none"
         \/ ret_type.kind = "type" /\ ret_type.name \in {"float", "datetime"}
    THEN [raised |-> "TypeError", value |-> <<>>]
    ELSE IF ~HasNextRun(slices)
    THEN [raised |-> "CroniterBadDateError", value |-> <<>>]
    ELSE [raised |-> "none", value |-> NextRunText]

\* what validate_cron_expression was called with and what it returned
Validation(valid, error, fields, expression, next_runs) ==
    [op |-> "validate", id |-> 0, success |-> valid, removed |-> FALSE,
     error |-> error, fields |-> fields, command |-> <<>>,
     expression |-> expression, next_runs |-> next_runs]

\* validate_cron_expression: a static method on a temporary, empty CronTab.
\* job.description() comes before get_next and raises when the optional
\* description library is missing, with the same result as a raising get_next
validate_cron_expression(expression) ==
    LET set == setall(DefaultSlices, expression)
        next == get_next(set.slices, IntValue(NextRunCount))
    IN  IF Len(Split(Strip(expression))) # 5
        THEN Validation(FALSE, "fields", "notfive", expression, <<>>)
        ELSE IF ~set.ok
        THEN Validation(FALSE, "grammar", "five", expression, <<>>)
        ELSE IF next.raised # "none"
        THEN Validation(FALSE, "next_runs", "five", expression, <<>>)
        ELSE Validation(TRUE, "none", "five", expression, <<next.value>>)

_job_to_dict(job, schedule_id) ==
    [schedule_id |-> schedule_id,
     command |-> job.command,
     cron_expression |-> RenderSlices(job.slices),
     enabled |-> job.enabled,
     next_run |-> IF job.enabled /\ HasNextRun(job.slices) THEN Some(NextRunText) ELSE None,
     comment |-> job.comment]

\* whether int(comment.split("_")[-1]) is a number, for the texts of digits
IsIdText(t) == t # <<>> /\ \A i \in 1..Len(t) : t[i] \in DigitChars

RECURSIVE ListFrom(_, _)
\* the entries list_schedules appends for table[i..]
ListFrom(table, i) ==
    IF i > Len(table) THEN <<>>
    ELSE LET job == table[i]
             parts == SplitOn(job.comment, "_")
             id_text == parts[Len(parts)]
         IN  IF job.comment # <<>> /\ IsPrefix(CRON_COMMENT_PREFIX, job.comment)
                /\ IsIdText(id_text)
             THEN <<_job_to_dict(job, ParseNat(id_text))>> \o ListFrom(table, i + 1)
             ELSE ListFrom(table, i + 1)

list_schedules(table) == ListFrom(table, 1)

-----------------------------------------------------------------------------
(* ScheduleManager: the log files of a schedule.  log_directory is a      *)
(* function from the names of its files to their lines.                    *)

\* the characters of the file names, in the order of their codes
CharOrder ==
    <<".", "0", "1", "2", "3", "4", "5", "6", "7", "8", "9", "_",
      "a", "b", "c", "d", "e", "f", "g", "h", "i", "j", "k", "l", "m",
      "n", "o", "p", "q", "r", "s", "t", "u", "v", "w", "x", "y", "z">>

CharRank(c) == CHOOSE i \in 1..Len(CharOrder) : CharOrder[i] = c

RECURSIVE TextLess(_, _)
\* a < b for two texts, as Python compares them
TextLess(a, b) ==
    IF b = <<>> THEN FALSE
    ELSE IF a = <<>> THEN TRUE
    ELSE IF Head(a) = Head(b) THEN TextLess(Tail(a), Tail(b))
    ELSE CharRank(Head(a)) < CharRank(Head(b))

RECURSIVE SortedReverse(_)
\* sorted(names, reverse=True)
SortedReverse(names) ==
    IF names = {} THEN <<>>
    ELSE LET m == CHOOSE x \in names : \A y \in names \ {x} : TextLess(y, x)
         IN  <<m>> \o SortedReverse(names \ {m})

LogNamePrefix(schedule_id) ==
    <<"s","c","h","e","d","u","l","e","_">> \o IntToStr(schedule_id) \o <<"_">>

LogNameSuffix == <<".","l","o","g">>

\* whether name matches the pattern schedule_{schedule_id}_*.log
GlobMatch(name, schedule_id) ==
    /\ Len(name) >= Len(LogNamePrefix(schedule_id)) + Len(LogNameSuffix)
    /\ IsPrefix(LogNamePrefix(schedule_id), name)
    /\ SubSeq(name, Len(name) - Len(LogNameSuffix) + 1, Len(name)) = LogNameSuffix

\* seq[-n:] for n >= 0: the last n elements, and all of them when n is 0
LastSlice(seq, n) ==
    IF n = 0 \/ n >= Len(seq) THEN seq
    ELSE SubSeq(seq, Len(seq) - n + 1, Len(seq))

\* seq[:n]
FirstSlice(seq, n) == IF n >= Len(seq) THEN seq ELSE SubSeq(seq, 1, n)

RECURSIVE LogContent(_, _, _, _)
\* log_content after the loop has read log_files[i..]
LogContent(files, log_files, lines, i) ==
    IF i > Len(log_files) THEN <<>>
    ELSE LET file_lines == LastSlice(files[log_files[i]], lines)
         IN  [k \in 1..Len(file_lines) |->
                  [file |-> log_files[i], line |-> Strip(file_lines[k])]]
             \o LogContent(files, log_files, lines, i + 1)

get_schedule_logs(files, schedule_id, lines) ==
    LET log_files == SortedReverse({f \in DOMAIN files : GlobMatch(f, schedule_id)})
        log_content == LogContent(files, FirstSlice(log_files, 5), lines, 1)
    IN  IF log_files = <<>>
        THEN [success |-> TRUE, logs |-> <<>>, log_files |-> <<>>]
        ELSE [success |-> TRUE, logs |-> LastSlice(log_content, lines),
              log_files |-> FirstSlice(log_files, 10)]

\* the file after one more line was appended to it (>> creates the file)
AppendLine(files, name, line) ==
    [f \in DOMAIN files \cup {name} |->
        IF f = name
        THEN (IF name \in DOMAIN files THEN files[name] ELSE <<>>) \o <<line>>
        ELSE files[f]]

\* the file the shell appends the output of cmd to: the word after >>
RedirectTarget(cmd) ==
    LET tokens == ShTokens(cmd)
        hits == {i \in 1..(Len(tokens) - 2) :
                    /\ tokens[i] = ShOp(">")
                    /\ tokens[i + 1] = ShOp(">")
                    /\ tokens[i + 2].type = "word"}
    IN  IF hits = {} THEN <<>>
        ELSE tokens[(CHOOSE i \in hits : \A h \in hits : i <= h) + 2].text

\* the name of a file of log_directory, from its path
LogName(path) == SubSeq(path, Len(log_directory) + 2, Len(path))

\* whether cron runs a job with these schedule fields on the day date, for
\* fields that are "*" or a number
FiresOn(slices, date) ==
    /\ slices[3] = <<"*">> \/ slices[3] = IntToStr(date.d)
    /\ slices[4] = <<"*">> \/ slices[4] = IntToStr(date.m)
    /\ slices[5] = <<"*">>

-----------------------------------------------------------------------------
(* ExecutionDatabase: the schedules table (the Ledger) *)

\* create_schedule: INSERT; the id is the table's next AUTOINCREMENT value
LedgerCreate(rows, nextId) == [rows |-> rows \cup {nextId}, nextId |-> nextId + 1]

\* delete_schedule: DELETE FROM schedules WHERE id = ?
LedgerDelete(rows, schedule_id) == rows \ {schedule_id}

-----------------------------------------------------------------------------
(* Paths: a path is its text; the file system is the set of paths that     *)
(* exist.  A relative path is taken from the root directory.               *)

\* the components of a path, "" and "." dropped
PathParts(p) == SelectSeq(SplitOn(p, "/"), LAMBDA c : c # <<>> /\ c # <<".">>)

RECURSIVE ResolveParts(_, _, _)
\* ".." steps back to the parent; the parent of the root is the root
ResolveParts(parts, i, acc) ==
    IF i > Len(parts) THEN acc
    ELSE IF parts[i] = <<".", ".">>
    THEN ResolveParts(parts, i + 1,
                      IF acc = <<>> THEN acc ELSE SubSeq(acc, 1, Len(acc) - 1))
    ELSE ResolveParts(parts, i + 1, Append(acc, parts[i]))

PathText(parts) ==
    IF parts = <<>> THEN <<"/">>
    ELSE Concat([i \in 1..Len(parts) |-> <<"/">> \o parts[i]])

\* Path(p).resolve()
resolve(p) == PathText(ResolveParts(PathParts(p), 1, <<>>))

\* Path(p).suffix: the last component from its last dot on, unless the dot
\* is its first or its last character
Suffix(p) ==
    LET parts == PathParts(p)
        name == IF parts = <<>> THEN <<>> ELSE parts[Len(parts)]
        dot == LastIndexOf(name, ".")
    IN  IF dot <= 1 \/ dot = Len(name) THEN <<>> ELSE SubSeq(name, dot, Len(name))

UpperLetters == <<"A","B","C","D","E","F","G","H","I","J","K","L","M",
                  "N","O","P","Q","R","S","T","U","V","W","X","Y","Z">>
LowerLetters == <<"a","b","c","d","e","f","g","h","i","j","k","l","m",
                  "n","o","p","q","r","s","t","u","v","w","x","y","z">>

\* str.lower()
Lower(s) ==
    [i \in 1..Len(s) |->
        IF \E k \in 1..26 : UpperLetters[k] = s[i]
        THEN LowerLetters[CHOOSE k \in 1..26 : UpperLetters[k] = s[i]]
        ELSE s[i]]

\* the directories and files there are: the scripts directory with a script
\* and a text file, a sibling directory whose name starts with the name of
\* the scripts directory, and an unrelated directory, each with a script
ExistingPaths ==
    { <<"/">>,
      <<"/","s">>, <<"/","s","/","A",".","p","s","1">>, <<"/","s","/","N",".","t","x","t">>,
      <<"/","s","2">>, <<"/","s","2","/","B",".","p","s","1">>,
      <<"/","t">>, <<"/","t","/","C",".","P","S","1">> }

\* Path.exists()
exists(p) == p \in ExistingPaths

-----------------------------------------------------------------------------
(* PowerShellExecutor: validation, and the script's process as the         *)
(* executor sees it.  A process writes its lines to stdout, closes stdout  *)
(* at closeAt and exits with code at exitAt, in seconds after its start;   *)
(* Never stands for a process that does not do so by itself.               *)

\* PowerShellExecutor.timeout, in seconds
timeout == 2

validate_script_path(script_path, allowed_directory) ==
    LET path == resolve(script_path)
    IN  IF Lower(Suffix(path)) # <<".","p","s","1">> THEN FALSE
        ELSE IF ~exists(path) THEN FALSE
        ELSE IF allowed_directory.given /\ allowed_directory.v # <<>>
        THEN IsPrefix(resolve(allowed_directory.v), path)
        ELSE TRUE

Never == MaxTime + 1
Times == 1..MaxTime

\* return codes of a process: 0, an error, and -2 for a process ended by
\* signal 2 (the subprocess module reports -N for signal N)
ExitCodes == {0, 1, -2}

\* lines a script writes, without their newline; one ends in a blank
LineTexts == {<<"a">>, <<"b", " ">>}
StderrTexts == {<<>>, <<"e">>}

\* the executable cannot be started
SpawnFailure ==
    [spawnOk |-> FALSE, lines |-> <<>>, err |-> <<>>,
     closeAt |-> Never, exitAt |-> Never, code |-> 0]

Behaviours ==
    {SpawnFailure} \cup
    {b \in [spawnOk : {TRUE}, lines : Lists(LineTexts, MaxLines), err : StderrTexts,
            closeAt : Times \cup {Never}, exitAt : Times \cup {Never}, code : ExitCodes] :
        /\ b.closeAt <= b.exitAt
        /\ b.exitAt = Never => b.code = 0}

\* how a call ends: it returns a value, or an exception leaves it
Return(v) == [kind |-> "return", value |-> v]
Raise(exc) == [kind |-> "raise", exc |-> exc]

NoProcess == [state |-> "none", cmd |-> <<>>]
Process(state, cmd) == [state |-> state, cmd |-> cmd]

\* what the process wrote to stdout, as one text
StdoutText(lines) == Concat([i \in 1..Len(lines) |-> lines[i] \o <<"\n">>])

\* subprocess.run(cmd, capture_output=True, timeout=...): the call's end and
\* the state it leaves the process in.  A process not finished when the
\* timeout expires is killed and TimeoutExpired is raised.
subprocess_run(cmd, b) ==
    IF ~b.spawnOk
    THEN [outcome |-> Raise("OSError"), proc |-> NoProcess]
    ELSE IF b.exitAt = Never \/ b.exitAt > timeout
    THEN [outcome |-> Raise("TimeoutExpired"), proc |-> Process("killed", cmd)]
    ELSE [outcome |-> Return([returncode |-> b.code, stdout |-> StdoutText(b.lines),
                              stderr |-> b.err]),
          proc |-> Process("exited", cmd)]

ExecutionResult(success, exit_code, stdout, stderr) ==
    [success |-> success, exit_code |-> exit_code, stdout |-> stdout, stderr |-> stderr]

InvalidPathText == <<"I","n","v","a","l","i","d"," ","s","c","r","i","p","t"," ","p","a","t","h">>
\* the texts of the two except blocks; the duration in the first and the
\* text of the exception in the second are not modelled
TimedOutText == <<"S","c","r","i","p","t"," ","e","x","e","c","u","t","i","o","n"," ","t","i","m","e","d"," ","o","u","t">>
ExceptionText == <<"O","S","E","r","r","o","r">>

\* the try block of execute_script (the duration is not modelled)
execute_script_try(script_path, params, b) ==
    IF ~validate_script_path(script_path, None)
    THEN Return(ExecutionResult(FALSE, -1, <<>>, InvalidPathText))
    ELSE LET cmd == build_command(script_path, params)
             result == subprocess_run(cmd, b).outcome
         IN  IF result.kind = "raise" THEN result
             ELSE Return(ExecutionResult(result.value.returncode = 0,
                                         result.value.returncode,
                                         result.value.stdout,
                                         result.value.stderr))

\* execute_script without its except blocks
execute_script_NoExcept(script_path, params, b) == execute_script_try(script_path, params, b)

\* execute_script that reports every result of its try block as a success
execute_script_AlwaysSuccess(script_path, params, b) ==
    LET body == execute_script_try(script_path, params, b)
    IN  IF body.kind = "return"
        THEN Return([body.value EXCEPT !.success = TRUE])
        ELSE IF body.exc = "TimeoutExpired"
        THEN Return(ExecutionResult(FALSE, -2, <<>>, TimedOutText))
        ELSE Return(ExecutionResult(FALSE, -3, <<>>, ExceptionText))

execute_script(script_path, params, b) ==
    LET body == execute_script_try(script_path, params, b)
    IN  IF body.kind = "return" THEN body
        ELSE IF body.exc = "TimeoutExpired"
        THEN Return(ExecutionResult(FALSE, -2, <<>>, TimedOutText))
        ELSE Return(ExecutionResult(FALSE, -3, <<>>, ExceptionText))

\* the events execute_script_stream yields (timestamps are not modelled)
StartEvent == [type |-> "start"]
StdoutEvent(line) == [type |-> "stdout", message |-> RStrip(line)]
StderrEvent(text) == [type |-> "stderr", message |-> text]
CompleteEvent(exit_code) == [type |-> "complete", exit_code |-> exit_code]
ErrorEvent(message) == [type |-> "error", message |-> message]

\* "if stderr:" an empty stderr yields no event; this one yields it anyway
StderrEvents_Always(text) == <<StderrEvent(text)>>

StderrEvents(text) == IF text # <<>> THEN <<StderrEvent(text)>> ELSE <<>>

\* process.wait(timeout=...) called once stdout has reached its end: whether
\* the process exits before the timeout, counted from the call, expires
WaitReturns(b) == b.exitAt # Never /\ b.exitAt <= b.closeAt + timeout

-----------------------------------------------------------------------------
(* app.py: the two execution endpoints and the executions table             *)

\* the checks of both endpoints before the executor is called: the HTTP
\* status, and the path handed to the executor
EndpointCheck(script_path) ==
    LET scripts_dir == resolve(scripts_directory)
        full_path == resolve(PathJoin(scripts_dir, script_path))
    IN  IF script_path = <<>> THEN [status |-> 400, full_path |-> <<>>]
        ELSE IF ~IsPrefix(scripts_dir, full_path) THEN [status |-> 400, full_path |-> full_path]
        ELSE IF ~exists(full_path) THEN [status |-> 404, full_path |-> full_path]
        ELSE [status |-> 200, full_path |-> full_path]

\* db.log_execution(...): the row inserted for an /api/execute request
ExecutionRow(endpoint, script_path, result) ==
    [endpoint |-> endpoint,
     script_path |-> script_path,
     status |-> IF result.exit_code = 0 THEN "success" ELSE "failed",
     exit_code |-> result.exit_code]

\* script references a client posts: a script, a text file, a script of the
\* sibling directory, a script outside, a missing script, and nothing
ScriptReferences ==
    { <<"A",".","p","s","1">>,
      <<"N",".","t","x","t">>,
      <<".",".","/","s","2","/","B",".","p","s","1">>,
      <<".",".","/","t","/","C",".","P","S","1">>,
      <<"/","t","/","C",".","P","S","1">>,
      <<"Z",".","p","s","1">>,
      <<>> }

\* the request's parameters: the endpoints default to an empty map
RequestParameters == <<>>

NoRequest == [given |-> FALSE, script_path |-> <<>>, behaviour |-> SpawnFailure]

SyncIdle == [pc |-> "idle", trace |-> <<"Idle">>, proc |-> NoProcess, result |-> <<>>, status |-> 0]

StreamIdle == [pc |-> "idle", proc |-> NoProcess, events |-> <<>>, read |-> 0, status |-> 0]

NoListing ==
    [called |-> FALSE, schedule_id |-> 0, cron_expression |-> <<>>, enabled |-> FALSE,
     others |-> 0, listed |-> FALSE, entries |-> <<>>]

\* log_directory with no file in it
NoLogs == [f \in {} |-> <<>>]

\* no thread is inside a ScheduleManager call
NoThreads == <<>>

\* no process was started by execute_script_stream
NoPipes ==
    [state |-> "none", todo |-> <<>>, out |-> <<>>, err |-> 0, outOpen |-> FALSE,
     pc |-> "idle", events |-> <<>>]

-----------------------------------------------------------------------------
(* Inputs of the ScheduleManager calls *)

ScheduleIds == 1..MaxSchedules

ScriptA == <<"A",".","p","s","1">>
Scripts == {ScriptA}

\* parameter maps given to create and update
ScheduledParams == {<<>>, << <<<<"k">>, StrValue(<<"a">>)>> >>}

CronDaily == <<"0"," ","2"," ","*"," ","*"," ","*">>       \* five fields, accepted by the grammar
CronBadField == <<"x"," ","2"," ","*"," ","*"," ","*">>    \* five fields, the first rejected by the grammar
CronThree == <<"0"," ","2"," ","*">>             \* three fields
CronEmpty == <<>>                            \* no field
CronInputs == {CronDaily, CronBadField, CronThree, CronEmpty}

\* a job of the user's crontab that is none of the dashboard's
ForeignJob ==
    [comment |-> <<>>, command |-> <<"t","r","u","e">>, slices |-> DefaultSlices, enabled |-> TRUE]

-----------------------------------------------------------------------------
(* History of the calls, for the claims about sequences of calls *)

FreshTrack == [state |-> "fresh", id |-> 0, created |-> FALSE, ok |-> FALSE]
MixedTrack == [state |-> "mixed", id |-> 0, created |-> FALSE, ok |-> FALSE]

\* after a create or update call on schedule_id with result res
TrackCreateUpdate(tr, res) ==
    IF tr.state = "mixed" \/ (tr.state = "only" /\ tr.id # res.id) THEN MixedTrack
    ELSE [state |-> "only", id |-> res.id,
          created |-> tr.created \/ res.op = "create",
          ok |-> IF res.op = "create" THEN res.success ELSE tr.ok]

-----------------------------------------------------------------------------
(* Actions.  tracked: whether the specification keeps the history `track` *)

Apply(out) ==
    /\ cron' = out.cron
    /\ disk' = out.disk
    /\ last' = out.res

CreateCall(tracked) ==
    \E id \in ScheduleIds, script \in Scripts, expr \in CronInputs,
       params \in ScheduledParams, enabled \in BOOLEAN,
       deleteWriteOk \in BOOLEAN, writeOk \in BOOLEAN :
        LET out == create_schedule(cron, disk, id, script, expr, params, enabled,
                                   deleteWriteOk, writeOk)
        IN  /\ Apply(out)
            /\ track' = IF tracked THEN TrackCreateUpdate(track, out.res) ELSE track
            /\ UNCHANGED <<ledger, nextRowId>>
            /\ UNCHANGED buildVars
            /\ UNCHANGED <<runVars, listing, hostVars>>

UpdateCall(tracked) ==
    \E id \in ScheduleIds,
       script \in {None} \cup {Some(s) : s \in Scripts},
       expr \in {None} \cup {Some(e) : e \in CronInputs},
       params \in {None} \cup {Some(p) : p \in ScheduledParams},
       enabled \in {NoneBool} \cup {Some(b) : b \in BOOLEAN},
       writeOk \in BOOLEAN :
        LET out == update_schedule(cron, disk, id, script, expr, params, enabled, writeOk)
        IN  /\ Apply(out)
            /\ track' = IF tracked THEN TrackCreateUpdate(track, out.res) ELSE track
            /\ UNCHANGED <<ledger, nextRowId>>
            /\ UNCHANGED buildVars
            /\ UNCHANGED <<runVars, listing, hostVars>>

Create == CreateCall(FALSE)

Update == UpdateCall(FALSE)

Delete ==
    \E id \in ScheduleIds, writeOk \in BOOLEAN :
        /\ Apply(delete_schedule(cron, disk, id, writeOk))
        /\ UNCHANGED <<track, ledger, nextRowId>>
        /\ UNCHANGED buildVars
        /\ UNCHANGED <<runVars, listing, hostVars>>

Toggle ==
    \E id \in ScheduleIds, enabled \in BOOLEAN, writeOk \in BOOLEAN :
        /\ Apply(toggle_schedule(cron, disk, id, enabled, writeOk))
        /\ UNCHANGED <<track, ledger, nextRowId>>
        /\ UNCHANGED buildVars
        /\ UNCHANGED <<runVars, listing, hostVars>>

ValidateCron ==
    \E expr \in CronInputs :
        /\ last' = validate_cron_expression(expr)
        /\ UNCHANGED <<cron, disk, track, ledger, nextRowId>>
        /\ UNCHANGED buildVars
        /\ UNCHANGED <<runVars, listing, hostVars>>

SchedInit ==
    /\ cron = <<ForeignJob>>
    /\ disk = <<ForeignJob>>
    /\ ledger = {}
    /\ nextRowId = 1
    /\ last = Result("init", 0, TRUE, FALSE, "none", "none", <<>>)
    /\ track = FreshTrack

BuildIdle ==
    /\ parameters = <<>>
    /\ argv = <<>>
    /\ command = <<>>
    /\ built = {}

RunIdle ==
    /\ req = NoRequest
    /\ sync = SyncIdle
    /\ stream = StreamIdle
    /\ executions = <<>>

ListIdle == listing = NoListing

\* no log file yet, no thread inside a call, no streamed process
HostIdle ==
    /\ logs = NoLogs
    /\ now = FirstDay
    /\ threads = NoThreads
    /\ pipes = NoPipes

Init == SchedInit /\ BuildIdle /\ RunIdle /\ ListIdle /\ HostIdle

Next ==
    \/ Create
    \/ Update
    \/ Delete
    \/ Toggle
    \/ ValidateCron

\* one ScheduleManager, its calls made one at a time
Spec == Init /\ [][Next]_vars

-----------------------------------------------------------------------------
(* Sequences of create and update calls only, with their history *)

TrackedCreate == CreateCall(TRUE)

TrackedUpdate == UpdateCall(TRUE)

SequenceNext == TrackedCreate \/ TrackedUpdate

SequenceSpec == Init /\ [][SequenceNext]_vars

-----------------------------------------------------------------------------
(* The Ledger's schedule rows next to the ScheduleManager's create/delete *)

LedgerCreateSchedule ==
    /\ nextRowId <= MaxSchedules
    /\ ledger' = LedgerCreate(ledger, nextRowId).rows
    /\ nextRowId' = LedgerCreate(ledger, nextRowId).nextId
    /\ UNCHANGED <<cron, disk, last, track>>
    /\ UNCHANGED buildVars
    /\ UNCHANGED <<runVars, listing, hostVars>>

LedgerDeleteSchedule ==
    \E id \in ScheduleIds :
        /\ ledger' = LedgerDelete(ledger, id)
        /\ UNCHANGED <<cron, disk, last, track, nextRowId>>
        /\ UNCHANGED buildVars
        /\ UNCHANGED <<runVars, listing, hostVars>>

LedgerNext ==
    \/ Create
    \/ Delete
    \/ LedgerCreateSchedule
    \/ LedgerDeleteSchedule

LedgerSpec == Init /\ [][LedgerNext]_vars

-----------------------------------------------------------------------------
(* The two command builders applied to one parameter map *)

BuildInit ==
    /\ parameters \in ParameterMaps
    /\ argv = <<>>
    /\ command = <<>>
    /\ built = {}

\* PowerShellExecutor.build_command(script, parameters)
BuildArgv ==
    /\ "argv" \notin built
    /\ argv' = build_command(PathJoin(scripts_directory, ScriptA), parameters)
    /\ built' = built \cup {"argv"}
    /\ UNCHANGED <<parameters, command>>
    /\ UNCHANGED schedVars
    /\ UNCHANGED <<runVars, listing, hostVars>>

\* ScheduleManager._build_command(script, parameters, 1)
BuildCronCommand ==
    /\ "cron" \notin built
    /\ command' = _build_command(ScriptA, parameters, 1, Today)
    /\ built' = built \cup {"cron"}
    /\ UNCHANGED <<parameters, argv>>
    /\ UNCHANGED schedVars
    /\ UNCHANGED <<runVars, listing, hostVars>>

BuildNext == BuildArgv \/ BuildCronCommand

BuildSpecInit == SchedInit /\ BuildInit /\ RunIdle /\ ListIdle /\ HostIdle

BuildSpec == BuildSpecInit /\ [][BuildNext]_vars

-----------------------------------------------------------------------------
(* One execution request, posted to /api/execute and to                    *)
(* /api/execute/stream: each endpoint handles it with a process of its own *)
(* that behaves as req.behaviour says.                                     *)

FullPath == EndpointCheck(req.script_path).full_path

Request ==
    /\ ~req.given
    /\ \E script_path \in ScriptReferences, b \in Behaviours :
           req' = [given |-> TRUE, script_path |-> script_path, behaviour |-> b]
    /\ UNCHANGED <<sync, stream, executions, listing, hostVars>>
    /\ UNCHANGED <<buildVars, schedVars>>

\* /api/execute up to the call of executor.execute_script
SyncReceive ==
    /\ req.given
    /\ sync.pc = "idle"
    /\ LET check == EndpointCheck(req.script_path)
       IN  sync' = IF check.status # 200
                   THEN [sync EXCEPT !.pc = "responded", !.status = check.status]
                   ELSE [sync EXCEPT !.pc = "validating",
                                     !.trace = Append(@, "Validating")]
    /\ UNCHANGED <<req, stream, executions, listing, hostVars>>
    /\ UNCHANGED <<buildVars, schedVars>>

\* execute_script: the validation, and on success the start of the process
SyncValidate ==
    /\ sync.pc = "validating"
    /\ sync' = IF ~validate_script_path(FullPath, None)
               THEN [sync EXCEPT !.pc = "returned",
                                 !.trace = Append(@, "Failed"),
                                 !.result = <<execute_script(FullPath, RequestParameters,
                                                             req.behaviour)>>]
               ELSE [sync EXCEPT !.pc = "running",
                                 !.trace = Append(@, "Running"),
                                 !.proc = IF req.behaviour.spawnOk
                                          THEN Process("running",
                                                       build_command(FullPath, RequestParameters))
                                          ELSE NoProcess]
    /\ UNCHANGED <<req, stream, executions, listing, hostVars>>
    /\ UNCHANGED <<buildVars, schedVars>>

\* execute_script: subprocess.run ends, the result is returned
SyncRun ==
    /\ sync.pc = "running"
    /\ LET run == subprocess_run(build_command(FullPath, RequestParameters), req.behaviour)
           state == IF run.outcome.kind = "return" THEN "Completed"
                    ELSE IF run.outcome.exc = "TimeoutExpired" THEN "TimedOut"
                    ELSE "Failed"
       IN  sync' = [sync EXCEPT !.pc = "returned",
                                !.trace = Append(@, state),
                                !.proc = run.proc,
                                !.result = <<execute_script(FullPath, RequestParameters,
                                                            req.behaviour)>>]
    /\ UNCHANGED <<req, stream, executions, listing, hostVars>>
    /\ UNCHANGED <<buildVars, schedVars>>

\* /api/execute after the executor returned: db.log_execution, the response
SyncLog ==
    /\ sync.pc = "returned"
    /\ sync.result[1].kind = "return"
    /\ executions' = Append(executions,
                            ExecutionRow("execute", req.script_path, sync.result[1].value))
    /\ sync' = [sync EXCEPT !.pc = "responded", !.status = 200]
    /\ UNCHANGED <<req, stream, listing, hostVars>>
    /\ UNCHANGED <<buildVars, schedVars>>

\* /api/execute/stream up to the Response that wraps the generator
StreamReceive ==
    /\ req.given
    /\ stream.pc = "idle"
    /\ LET check == EndpointCheck(req.script_path)
       IN  stream' = IF check.status # 200
                     THEN [stream EXCEPT !.pc = "responded", !.status = check.status]
                     ELSE [stream EXCEPT !.pc = "validating", !.status = 200]
    /\ UNCHANGED <<req, sync, executions, listing, hostVars>>
    /\ UNCHANGED <<buildVars, schedVars>>

\* execute_script_stream up to its first yield
StreamValidate ==
    /\ stream.pc = "validating"
    /\ stream' = IF ~validate_script_path(FullPath, None)
                 THEN [stream EXCEPT !.pc = "done",
                                     !.events = Append(@, ErrorEvent(InvalidPathText))]
                 ELSE [stream EXCEPT !.pc = "spawning",
                                     !.events = Append(@, StartEvent)]
    /\ UNCHANGED <<req, sync, executions, listing, hostVars>>
    /\ UNCHANGED <<buildVars, schedVars>>

\* subprocess.Popen
StreamSpawn ==
    /\ stream.pc = "spawning"
    /\ stream' = IF req.behaviour.spawnOk
                 THEN [stream EXCEPT !.pc = "reading",
                                     !.proc = Process("running",
                                                      build_command(FullPath, RequestParameters))]
                 ELSE [stream EXCEPT !.pc = "done",
                                     !.events = Append(@, ErrorEvent(ExceptionText))]
    /\ UNCHANGED <<req, sync, executions, listing, hostVars>>
    /\ UNCHANGED <<buildVars, schedVars>>

\* one turn of the readline loop: a line is read and yielded
StreamReadLine ==
    /\ stream.pc = "reading"
    /\ stream.read < Len(req.behaviour.lines)
    /\ stream' = [stream EXCEPT
                     !.read = @ + 1,
                     !.events = Append(@, StdoutEvent(req.behaviour.lines[stream.read + 1]
                                                          \o <<"\n">>))]
    /\ UNCHANGED <<req, sync, executions, listing, hostVars>>
    /\ UNCHANGED <<buildVars, schedVars>>

\* readline returns '' once the process has closed its stdout; until then
\* the loop is blocked in readline
StreamEndOfOutput ==
    /\ stream.pc = "reading"
    /\ stream.read = Len(req.behaviour.lines)
    /\ req.behaviour.closeAt # Never
    /\ stream' = [stream EXCEPT !.pc = "waiting"]
    /\ UNCHANGED <<req, sync, executions, listing, hostVars>>
    /\ UNCHANGED <<buildVars, schedVars>>

\* process.wait(timeout=self.timeout): the process exits in time, or
\* TimeoutExpired is raised and its except block yields the error event
StreamWait ==
    /\ stream.pc = "waiting"
    /\ stream' = IF WaitReturns(req.behaviour)
                 THEN [stream EXCEPT !.pc = "stderr", !.proc.state = "exited"]
                 ELSE [stream EXCEPT !.pc = "done",
                                     !.events = Append(@, ErrorEvent(TimedOutText))]
    /\ UNCHANGED <<req, sync, executions, listing, hostVars>>
    /\ UNCHANGED <<buildVars, schedVars>>

\* process.stderr.read() and the stderr event
StreamStderr ==
    /\ stream.pc = "stderr"
    /\ stream' = [stream EXCEPT !.pc = "completing",
                                !.events = @ \o StderrEvents(req.behaviour.err)]
    /\ UNCHANGED <<req, sync, executions, listing, hostVars>>
    /\ UNCHANGED <<buildVars, schedVars>>

\* the complete event; the generator ends
StreamComplete ==
    /\ stream.pc = "completing"
    /\ stream' = [stream EXCEPT !.pc = "done",
                                !.events = Append(@, CompleteEvent(req.behaviour.code))]
    /\ UNCHANGED <<req, sync, executions, listing, hostVars>>
    /\ UNCHANGED <<buildVars, schedVars>>

\* a process the generator left running exits by itself
ProcessExits ==
    /\ stream.pc = "done"
    /\ stream.proc.state = "running"
    /\ req.behaviour.exitAt # Never
    /\ stream' = [stream EXCEPT !.proc.state = "exited"]
    /\ UNCHANGED <<req, sync, executions, listing, hostVars>>
    /\ UNCHANGED <<buildVars, schedVars>>

RunNext ==
    \/ Request
    \/ SyncReceive
    \/ SyncValidate
    \/ SyncRun
    \/ SyncLog
    \/ StreamReceive
    \/ StreamValidate
    \/ StreamSpawn
    \/ StreamReadLine
    \/ StreamEndOfOutput
    \/ StreamWait
    \/ StreamStderr
    \/ StreamComplete
    \/ ProcessExits

RunSpec == Init /\ [][RunNext]_vars

-----------------------------------------------------------------------------
(* The ScheduleManager mutators next to execute_script, each call whole *)

\* the paths execute_script is called with
ExecutedPaths == {resolve(PathJoin(scripts_directory, r)) : r \in ScriptReferences}

\* one process behaviour per way execute_script can end: the executable does
\* not start, the process exits at once with each of the exit codes, or it
\* never exits
ExecutedBehaviours ==
    {b \in Behaviours :
        b.lines = <<>> /\ b.err = <<>> /\ b.closeAt = b.exitAt /\ b.exitAt \in {1, Never}}

ExecuteScript ==
    \E script_path \in ExecutedPaths, b \in ExecutedBehaviours :
        /\ last' = [op |-> "execute", id |-> 0,
                    outcome |-> execute_script(script_path, RequestParameters, b)]
        /\ UNCHANGED <<cron, disk, ledger, nextRowId, track>>
        /\ UNCHANGED <<buildVars, runVars, listing, hostVars>>

ErrorNext ==
    \/ Create
    \/ Update
    \/ Delete
    \/ Toggle
    \/ ExecuteScript

ErrorSpec == Init /\ [][ErrorNext]_vars

-----------------------------------------------------------------------------
(* create_schedule followed by list_schedules *)

CronPadded == <<"0","0"," ","2"," ","*"," ","*"," ","*">>      \* minute written with two digits
CronMidnight == <<"0"," ","0"," ","*"," ","*"," ","*">>        \* the schedule nicknamed @daily
CronNoDate == <<"0"," ","0"," ","3","1"," ","2"," ","*">>      \* the 31st of February
ListedCronInputs == {CronDaily, CronPadded, CronMidnight, CronNoDate, CronBadField}

\* the entries of list_schedules for other schedules than schedule_id
OtherEntries(table, schedule_id) ==
    SelectSeq(list_schedules(table), LAMBDA e : e.schedule_id # schedule_id)

CreateListed ==
    \E id \in ScheduleIds, script \in Scripts, expr \in ListedCronInputs,
       params \in ScheduledParams, enabled \in BOOLEAN,
       deleteWriteOk \in BOOLEAN, writeOk \in BOOLEAN :
        /\ Apply(create_schedule(cron, disk, id, script, expr, params, enabled,
                                 deleteWriteOk, writeOk))
        /\ listing' = [called |-> TRUE, schedule_id |-> id, cron_expression |-> expr,
                       enabled |-> enabled, others |-> Len(OtherEntries(cron, id)),
                       listed |-> FALSE, entries |-> <<>>]
        /\ UNCHANGED <<track, ledger, nextRowId>>
        /\ UNCHANGED <<buildVars, runVars, hostVars>>

ListSchedules ==
    /\ listing.called
    /\ listing' = [listing EXCEPT !.listed = TRUE, !.entries = list_schedules(cron)]
    /\ UNCHANGED <<buildVars, schedVars, runVars, hostVars>>

ListNext == CreateListed \/ ListSchedules

ListSpec == Init /\ [][ListNext]_vars

-----------------------------------------------------------------------------
(* list_schedules on a crontab that holds jobs of other origins *)

\* comments of jobs that are in the user's crontab before the manager reads
\* it and that no create_schedule call made
ForeignComments ==
    {<<>>,
     <<"b","a","c","k","u","p">>,
     CRON_COMMENT_PREFIX,
     CRON_COMMENT_PREFIX \o <<"_">>,
     CRON_COMMENT_PREFIX \o <<"_","O","L","D","_","1">>,
     CRON_COMMENT_PREFIX \o <<"S","_","1">>}

ForeignJobWith(comment) == [ForeignJob EXCEPT !.comment = comment]

\* CronTab(user=True) reads the user's crontab as it is
TagInit ==
    /\ \E c \in ForeignComments : cron = <<ForeignJobWith(c)>>
    /\ disk = cron
    /\ ledger = {}
    /\ nextRowId = 1
    /\ last = Result("init", 0, TRUE, FALSE, "none", "none", <<>>)
    /\ track = FreshTrack
    /\ BuildIdle /\ RunIdle /\ ListIdle /\ HostIdle

ListStore ==
    /\ listing' = [NoListing EXCEPT !.listed = TRUE, !.entries = list_schedules(cron)]
    /\ UNCHANGED <<buildVars, schedVars, runVars, hostVars>>

TagNext == Create \/ Delete \/ ListStore

TagSpec == TagInit /\ [][TagNext]_vars

-----------------------------------------------------------------------------
(* Schedules running over several days, and their log files *)

CronEveryMinute == <<"*"," ","*"," ","*"," ","*"," ","*">>

\* create_schedule of a job that cron runs every minute
CreateLogged ==
    \E id \in ScheduleIds, enabled \in BOOLEAN :
        /\ Apply(create_schedule(cron, disk, id, ScriptA, CronEveryMinute, <<>>, enabled,
                                 TRUE, TRUE))
        /\ UNCHANGED <<track, ledger, nextRowId>>
        /\ UNCHANGED <<buildVars, runVars, listing>>
        /\ UNCHANGED <<logs, now, threads, pipes>>

\* the day ends
Midnight ==
    /\ now.d < FirstDay.d + MaxDays
    /\ now' = [now EXCEPT !.d = now.d + 1]
    /\ UNCHANGED <<buildVars, schedVars, runVars, listing>>
    /\ UNCHANGED <<logs, threads, pipes>>

\* cron runs an enabled job of the user's crontab: the shell appends the
\* output, a line that tells the day of the run, to the file the command
\* redirects to
Fire ==
    \E k \in 1..Len(disk) :
        LET job == disk[k]
            file == LogName(RedirectTarget(job.command))
        IN  /\ job.enabled
            /\ FiresOn(job.slices, now)
            /\ RedirectTarget(job.command) # <<>>
            /\ file \in DOMAIN logs => Len(logs[file]) < MaxLogLines
            /\ logs' = AppendLine(logs, file, strftime_Ymd(now))
            /\ last' = [op |-> "fire", comment |-> job.comment, day |-> now, file |-> file]
            /\ UNCHANGED <<cron, disk, ledger, nextRowId, track>>
            /\ UNCHANGED <<buildVars, runVars, listing>>
            /\ UNCHANGED <<now, threads, pipes>>

GetLogs ==
    \E id \in ScheduleIds, lines \in 1..MaxLogLines :
        /\ last' = [op |-> "logs", id |-> id, lines |-> lines,
                    outcome |-> get_schedule_logs(logs, id, lines)]
        /\ UNCHANGED <<cron, disk, ledger, nextRowId, track>>
        /\ UNCHANGED <<buildVars, runVars, listing, hostVars>>

LogNext == CreateLogged \/ Midnight \/ Fire \/ GetLogs

LogSpec == Init /\ [][LogNext]_vars

-----------------------------------------------------------------------------
(* create_schedule followed by updates that give parameters only *)

\* script paths given to create_schedule, relative to scripts_directory or
\* absolute; a file name may hold any character but "/"
ScriptNames ==
    {ScriptA,
     <<"d","/","A",".","p","s","1">>,
     <<"/","t","/","C",".","P","S","1">>,
     <<"a","'","b",".","p","s","1">>}

CreateScript ==
    \E id \in ScheduleIds, script \in ScriptNames, params \in ScheduledParams,
       enabled \in BOOLEAN :
        /\ Apply(create_schedule(cron, disk, id, script, CronDaily, params, enabled,
                                 TRUE, TRUE))
        /\ listing' = [called |-> TRUE, schedule_id |-> id, script_path |-> script,
                       updated |-> FALSE, parameters |-> params, day |-> now]
        /\ UNCHANGED <<track, ledger, nextRowId>>
        /\ UNCHANGED <<buildVars, runVars, hostVars>>

\* update_schedule(schedule_id, parameters=...) on the schedule created last
UpdateParameters ==
    \E params \in ScheduledParams :
        /\ listing.called
        /\ Apply(update_schedule(cron, disk, listing.schedule_id, None, None, Some(params),
                                 NoneBool, TRUE))
        /\ listing' = [listing EXCEPT !.updated = TRUE, !.parameters = params, !.day = now]
        /\ UNCHANGED <<track, ledger, nextRowId>>
        /\ UNCHANGED <<buildVars, runVars, hostVars>>

ExtractNext == CreateScript \/ UpdateParameters \/ Midnight

ExtractSpec == Init /\ [][ExtractNext]_vars

-----------------------------------------------------------------------------
(* create_schedule called by several threads on the one ScheduleManager:   *)
(* the threads share self.cron; a thread does delete_schedule, then adds   *)
(* its job to the table, then cron.write(), each as one step.              *)

ThreadIds == 1..MaxThreads

IdleThread == [pc |-> "idle", id |-> 0, params |-> <<>>, enabled |-> FALSE]

ThreadInit ==
    /\ SchedInit /\ BuildIdle /\ RunIdle /\ ListIdle
    /\ logs = NoLogs
    /\ now = FirstDay
    /\ pipes = NoPipes
    /\ threads = [t \in ThreadIds |-> IdleThread]

\* a thread enters create_schedule; the expression has five fields
ThreadCall(t) ==
    \E id \in ScheduleIds, params \in ScheduledParams, enabled \in BOOLEAN :
        /\ threads[t].pc = "idle"
        /\ threads' = [threads EXCEPT ![t] =
                           [pc |-> "called", id |-> id, params |-> params, enabled |-> enabled]]
        /\ UNCHANGED <<buildVars, schedVars, runVars, listing, logs, now, pipes>>

\* self.delete_schedule(schedule_id), with its own write if it removed a job
ThreadDelete(t) ==
    LET out == delete_schedule(cron, disk, threads[t].id, TRUE)
    IN  /\ threads[t].pc = "called"
        /\ cron' = out.cron
        /\ disk' = out.disk
        /\ threads' = [threads EXCEPT ![t].pc = "deleted"]
        /\ UNCHANGED <<ledger, nextRowId, last, track>>
        /\ UNCHANGED <<buildVars, runVars, listing, logs, now, pipes>>

\* _build_command, self.cron.new, job.setall, job.enable
ThreadAddJob(t) ==
    LET cmd == _build_command(ScriptA, threads[t].params, threads[t].id, Today)
        job == NewJob(cmd, _get_job_comment(threads[t].id))
        job1 == [job EXCEPT !.slices = setall(job.slices, CronDaily).slices]
        job2 == [job1 EXCEPT !.enabled = threads[t].enabled]
    IN  /\ threads[t].pc = "deleted"
        /\ cron' = Append(cron, job2)
        /\ threads' = [threads EXCEPT ![t].pc = "added"]
        /\ UNCHANGED <<disk, ledger, nextRowId, last, track>>
        /\ UNCHANGED <<buildVars, runVars, listing, logs, now, pipes>>

\* self.cron.write(), atomic, and the return of the result
ThreadWrite(t) ==
    /\ threads[t].pc = "added"
    /\ disk' = cron
    /\ last' = Result("create", threads[t].id, TRUE, FALSE, "none", "five",
                      _build_command(ScriptA, threads[t].params, threads[t].id, Today))
    /\ threads' = [threads EXCEPT ![t].pc = "done"]
    /\ UNCHANGED <<cron, ledger, nextRowId, track>>
    /\ UNCHANGED <<buildVars, runVars, listing, logs, now, pipes>>

ThreadNext ==
    \E t \in ThreadIds :
        \/ ThreadCall(t)
        \/ ThreadDelete(t)
        \/ ThreadAddJob(t)
        \/ ThreadWrite(t)

ThreadSpec == ThreadInit /\ [][ThreadNext]_vars

-----------------------------------------------------------------------------
(* The mutators called for more than one schedule *)

FrameIds == 1..(MaxSchedules + 1)

FrameCreate ==
    \E id \in FrameIds, expr \in {CronDaily, CronThree}, enabled \in BOOLEAN,
       writeOk \in BOOLEAN :
        /\ Apply(create_schedule(cron, disk, id, ScriptA, expr, <<>>, enabled, TRUE, writeOk))
        /\ UNCHANGED <<track, ledger, nextRowId>>
        /\ UNCHANGED <<buildVars, runVars, listing, hostVars>>

FrameUpdate ==
    \E id \in FrameIds, expr \in {None, Some(CronThree)},
       params \in {None} \cup {Some(p) : p \in ScheduledParams \ {<<>>}},
       writeOk \in BOOLEAN :
        /\ Apply(update_schedule(cron, disk, id, None, expr, params, NoneBool, writeOk))
        /\ UNCHANGED <<track, ledger, nextRowId>>
        /\ UNCHANGED <<buildVars, runVars, listing, hostVars>>

FrameDelete ==
    \E id \in FrameIds, writeOk \in BOOLEAN :
        /\ Apply(delete_schedule(cron, disk, id, writeOk))
        /\ UNCHANGED <<track, ledger, nextRowId>>
        /\ UNCHANGED <<buildVars, runVars, listing, hostVars>>

FrameToggle ==
    \E id \in FrameIds, enabled \in BOOLEAN, writeOk \in BOOLEAN :
        /\ Apply(toggle_schedule(cron, disk, id, enabled, writeOk))
        /\ UNCHANGED <<track, ledger, nextRowId>>
        /\ UNCHANGED <<buildVars, runVars, listing, hostVars>>

FrameNext == FrameCreate \/ FrameUpdate \/ FrameDelete \/ FrameToggle

FrameSpec == Init /\ [][FrameNext]_vars

-----------------------------------------------------------------------------
(* execute_script_stream and its process, joined by the two pipes that     *)
(* Popen creates.  The process does its writes in order, closes its stdout *)
(* at some point and exits; a write waits while its pipe is full.  The     *)
(* generator reads stdout to its end, then waits for the exit, then reads  *)
(* stderr.                                                                 *)

\* what a process does: write a line to stdout, write a block to stderr,
\* close its stdout (after which it writes no line)
RECURSIVE NoLineAfterClose(_)
NoLineAfterClose(program) ==
    \/ program = <<>>
    \/ /\ Head(program) = "close" => \A i \in 2..Len(program) : program[i] = "err"
       /\ NoLineAfterClose(Tail(program))

Programs ==
    {program \in UNION {[1..n -> {"out", "err", "close"}] : n \in 0..MaxWrites} :
        NoLineAfterClose(program)}

\* subprocess.Popen(cmd, stdout=PIPE, stderr=PIPE, ...), after the start event
PipeStart ==
    \E program \in Programs :
        /\ pipes.state = "none"
        /\ pipes' = [state |-> "running", todo |-> program, out |-> <<>>, err |-> 0,
                     outOpen |-> TRUE, pc |-> "reading", events |-> <<"start">>]
        /\ UNCHANGED <<buildVars, schedVars, runVars, listing, logs, now, threads>>

\* the process writes a line to stdout: there is room in the pipe
ProcessWriteOut ==
    /\ pipes.state = "running"
    /\ pipes.todo # <<>> /\ Head(pipes.todo) = "out"
    /\ Len(pipes.out) < PipeCapacity
    /\ pipes' = [pipes EXCEPT !.todo = Tail(@), !.out = Append(@, "line")]
    /\ UNCHANGED <<buildVars, schedVars, runVars, listing, logs, now, threads>>

\* the process writes a block to stderr: there is room in the pipe
ProcessWriteErr ==
    /\ pipes.state = "running"
    /\ pipes.todo # <<>> /\ Head(pipes.todo) = "err"
    /\ pipes.err < PipeCapacity
    /\ pipes' = [pipes EXCEPT !.todo = Tail(@), !.err = @ + 1]
    /\ UNCHANGED <<buildVars, schedVars, runVars, listing, logs, now, threads>>

ProcessCloseOut ==
    /\ pipes.state = "running"
    /\ pipes.todo # <<>> /\ Head(pipes.todo) = "close"
    /\ pipes' = [pipes EXCEPT !.todo = Tail(@), !.outOpen = FALSE]
    /\ UNCHANGED <<buildVars, schedVars, runVars, listing, logs, now, threads>>

\* the process has nothing left to do and exits, which closes its pipe ends
ProcessEnd ==
    /\ pipes.state = "running"
    /\ pipes.todo = <<>>
    /\ pipes' = [pipes EXCEPT !.state = "exited", !.outOpen = FALSE]
    /\ UNCHANGED <<buildVars, schedVars, runVars, listing, logs, now, threads>>

\* process.stdout.readline returns a line, which is yielded
PipeReadLine ==
    /\ pipes.pc = "reading"
    /\ pipes.out # <<>>
    /\ pipes' = [pipes EXCEPT !.out = Tail(@), !.events = Append(@, "stdout")]
    /\ UNCHANGED <<buildVars, schedVars, runVars, listing, logs, now, threads>>

\* readline returns '': the pipe is empty and the process has closed it
PipeEndOfOutput ==
    /\ pipes.pc = "reading"
    /\ pipes.out = <<>>
    /\ ~pipes.outOpen
    /\ pipes' = [pipes EXCEPT !.pc = "waiting"]
    /\ UNCHANGED <<buildVars, schedVars, runVars, listing, logs, now, threads>>

\* process.wait(timeout=self.timeout) returns: the process has exited
PipeWaitReturns ==
    /\ pipes.pc = "waiting"
    /\ pipes.state = "exited"
    /\ pipes' = [pipes EXCEPT !.pc = "stderr"]
    /\ UNCHANGED <<buildVars, schedVars, runVars, listing, logs, now, threads>>

\* process.wait raises TimeoutExpired: the process has not exited in time;
\* the except block yields the error event
PipeWaitTimesOut ==
    /\ pipes.pc = "waiting"
    /\ pipes.state = "running"
    /\ pipes' = [pipes EXCEPT !.pc = "done", !.events = Append(@, "error")]
    /\ UNCHANGED <<buildVars, schedVars, runVars, listing, logs, now, threads>>

\* process.stderr.read(), the stderr event if there was any text, and the
\* complete event
PipeComplete ==
    /\ pipes.pc = "stderr"
    /\ pipes' = [pipes EXCEPT
                    !.pc = "done",
                    !.err = 0,
                    !.events = @ \o (IF pipes.err > 0 THEN <<"stderr">> ELSE <<>>)
                                 \o <<"complete">>]
    /\ UNCHANGED <<buildVars, schedVars, runVars, listing, logs, now, threads>>

PipeNext ==
    \/ PipeStart
    \/ ProcessWriteOut
    \/ ProcessWriteErr
    \/ ProcessCloseOut
    \/ ProcessEnd
    \/ PipeReadLine
    \/ PipeEndOfOutput
    \/ PipeWaitReturns
    \/ PipeWaitTimesOut
    \/ PipeComplete

\* the process runs whenever it can, the generator is consumed to its end,
\* and a wait that can time out does so unless the process exits first
PipeSpec ==
    /\ Init
    /\ [][PipeNext]_vars
    /\ WF_vars(ProcessWriteOut) /\ WF_vars(ProcessWriteErr)
    /\ WF_vars(ProcessCloseOut) /\ WF_vars(ProcessEnd)
    /\ WF_vars(PipeReadLine) /\ WF_vars(PipeEndOfOutput)
    /\ WF_vars(PipeWaitReturns \/ PipeWaitTimesOut) /\ WF_vars(PipeComplete)

-----------------------------------------------------------------------------
(* Reading the built commands back *)

Denylist == {DANGEROUS_CHARS[i] : i \in 1..Len(DANGEROUS_CHARS)}

Chars(s) == {s[i] : i \in 1..Len(s)}

\* the tokens build_command emitted after the script path
ArgvParameterTokens == SubSeq(argv, Len(ArgvBase(<<>>)) + 1, Len(argv))

\* the part of the cron command between the quoted script path and the
\* redirection to the log file: what the parameters contributed
CronParameterPart ==
    LET head == Len(_build_command(ScriptA, <<>>, 1, Today)) - Len(LogFile(1, Today))
                    - Len(<<">",">"," ","'">>) - Len(<<"'"," ","2",">","&","1">>) - 1
        tailLen == 1 + Len(<<">",">"," ","'">>) + Len(LogFile(1, Today)) + Len(<<"'"," ","2",">","&","1">>)
    IN  SubSeq(command, head + 1, Len(command) - tailLen)

HasDenylisted(params) ==
    \E i \in 1..Len(params) :
        \/ Chars(params[i][1]) \cap Denylist # {}
        \/ params[i][2].kind \in {"str"} /\ Chars(params[i][2].s) \cap Denylist # {}
        \/ params[i][2].kind = "list"
           /\ \E j \in 1..Len(params[i][2].items) :
                  Chars(Str(params[i][2].items[j])) \cap Denylist # {}

-----------------------------------------------------------------------------
(* Claims about the builders, checked under BuildSpec *)

\* C7: for every parameter map whose names or values contain a denylisted
\* character, no parameter token of the argument vector and no part of the
\* cron command contributed by the parameters contains a denylisted character.
C7_NoDenylistedCharEmitted ==
    HasDenylisted(parameters) =>
        /\ "argv" \in built =>
               \A i \in 1..Len(ArgvParameterTokens) :
                   Chars(ArgvParameterTokens[i]) \cap Denylist = {}
        /\ "cron" \in built => Chars(CronParameterPart) \cap Denylist = {}

\* the words of the cron command's parameter part that are flags
CronFlagWords ==
    SelectSeq(Split(CronParameterPart), LAMBDA w : Head(w) = "-")

\* C9: every flag token -name emitted by build_command and by _build_command
\* has a name made of the characters [A-Za-z0-9_] only.
C9_FlagNamesAreIdentifiers ==
    /\ "argv" \in built =>
           \A i \in 1..Len(ArgvParameterTokens) :
               LET tok == ArgvParameterTokens[i]
               IN  (tok # <<>> /\ Head(tok) = "-") => Chars(Tail(tok)) \subseteq IdentChars
    /\ "cron" \in built =>
           \A i \in 1..Len(CronFlagWords) : Chars(Tail(CronFlagWords[i])) \subseteq IdentChars

\* the words a shell must recover from the parameter part of the cron
\* command: per parameter the flag, and the value as one literal argument
RECURSIVE ExpectedShellWords(_, _)
ExpectedShellWords(params, i) ==
    IF i > Len(params) THEN <<>>
    ELSE LET key == params[i][1]
             value == params[i][2]
             flag == ShWord(<<"-">> \o key, TRUE)
             here == IF value.kind = "none" \/ value = StrValue(<<>>) THEN <<>>
                     ELSE IF value.kind = "bool"
                     THEN IF value.b THEN <<flag>> ELSE <<>>
                     ELSE IF value.kind = "list"
                     THEN <<flag, ShWord(Join(<<",">>,
                              [j \in 1..Len(value.items) |-> Str(value.items[j])]), TRUE)>>
                     ELSE <<flag, ShWord(Str(value), TRUE)>>
         IN  here \o ExpectedShellWords(params, i + 1)

NamesAreIdentifiers(params) ==
    \A i \in 1..Len(params) : Chars(params[i][1]) \subseteq IdentChars

\* C8: in the cron command every scalar value and every list value is a
\* single-quoted word that the shell reads back as exactly the original value,
\* one argument, nothing of it taken as shell syntax.
C8_ShellRecoversEveryValue ==
    ("cron" \in built /\ NamesAreIdentifiers(parameters)) =>
        ShTokens(CronParameterPart) = ExpectedShellWords(parameters, 1)

\* the part of C8 that the code keeps: scalar values
C8_ScalarValuesRoundTrip ==
    ("cron" \in built /\ NamesAreIdentifiers(parameters)
        /\ \A i \in 1..Len(parameters) : parameters[i][2].kind # "list") =>
        ShTokens(CronParameterPart) = ExpectedShellWords(parameters, 1)

\* the tokens the claim C10 prescribes for one parameter
PrescribedTokens(key, value) ==
    LET name == <<"-">> \o SelectSeq(key, LAMBDA c : c \in IdentChars)
        Clean(s) == SelectSeq(s, LAMBDA c : c \notin Denylist)
    IN  CASE value.kind = "bool" -> IF value.b THEN <<name>> ELSE <<>>
          [] value.kind = "list" ->
                <<name, Join(<<",">>, [j \in 1..Len(value.items) |-> Clean(Str(value.items[j]))])>>
          [] value.kind = "none" -> <<>>
          [] OTHER -> IF Clean(Str(value)) = <<>> THEN <<>> ELSE <<name, Clean(Str(value))>>

\* C10: build_command emits, per parameter and in map order: -name for true
\* and nothing for false; -name and the comma-join of the sanitized elements
\* for a list; -name and the sanitized value otherwise, and nothing at all
\* when the sanitized value is empty.
C10_ArgvTokensAsPrescribed ==
    "argv" \in built =>
        ArgvParameterTokens =
            Concat([i \in 1..Len(parameters) |->
                        PrescribedTokens(parameters[i][1], parameters[i][2])])

\* a built argument vector for a map holding a value that sanitizes to
\* nothing, followed by a list with a denylisted element
C10_Witness ==
    /\ "argv" \in built
    /\ Len(parameters) = 2
    /\ parameters[1][2] = StrValue(<<";">>)
    /\ parameters[2][2] = ListValue(<<StrValue(<<";">>), StrValue(<<"a">>)>>)
    /\ Len(ArgvParameterTokens) = 2

-----------------------------------------------------------------------------
(* Claims about the ScheduleManager mutators *)

\* the jobs of a table tagged with schedule_id, and their number
TaggedAt(table, schedule_id) ==
    {k \in 1..Len(table) : table[k].comment = _get_job_comment(schedule_id)}

TaggedJobs(table, schedule_id) == {table[k] : k \in TaggedAt(table, schedule_id)}

Count(table, schedule_id) == Cardinality(TaggedAt(table, schedule_id))

\* C1: in every state reachable by create, update, delete and toggle calls,
\* succeeding or failing, from a store with no tagged job, the job table and
\* the persisted crontab each hold at most one job tagged with any schedule id.
C1_AtMostOneJobPerSchedule ==
    \A id \in ScheduleIds : Count(cron, id) <= 1 /\ Count(disk, id) <= 1

\* a create that replaced the job the schedule already had
C1_Witness ==
    /\ last.op = "create"
    /\ last.success
    /\ last.removed
    /\ Count(cron, last.id) = 1
    /\ Count(disk, last.id) = 1

\* C2 as stated: after any sequence of create and update calls on a single
\* schedule id, at least one of them a create, exactly one job tagged with
\* the id exists in the job store.
C2_ExactlyOneAfterCreatesAndUpdates ==
    (track.state = "only" /\ track.created) =>
        Count(cron, track.id) = 1 /\ Count(disk, track.id) = 1

\* C2 as amended: after any sequence of create and update calls on a single
\* schedule id whose most recent create call succeeded, exactly one job tagged
\* with the id exists, in the job table and in the persisted crontab.
C2_ExactlyOneAfterSuccessfulCreate ==
    (track.state = "only" /\ track.created /\ track.ok) =>
        Count(cron, track.id) = 1 /\ Count(disk, track.id) = 1

\* a failed update after a successful create, the one job still there
C2_Witness ==
    /\ track.state = "only"
    /\ track.created
    /\ track.ok
    /\ last.op = "update"
    /\ ~last.success
    /\ last.error = "write"
    /\ Count(cron, track.id) = 1
    /\ Count(disk, track.id) = 1

\* C3: a create call that fails leaves no partial job behind: neither the job
\* table nor the persisted crontab holds a newly added job tagged with the
\* schedule id, and never two jobs with that tag.
C3_FailedCreateLeavesNoJob ==
    [][(last'.op = "create" /\ ~last'.success) =>
          /\ TaggedJobs(cron', last'.id) \subseteq TaggedJobs(cron, last'.id)
          /\ TaggedJobs(disk', last'.id) \subseteq TaggedJobs(disk, last'.id)
          /\ Count(cron', last'.id) <= 1
          /\ Count(disk', last'.id) <= 1]_vars

\* C4: a cron expression that does not have exactly five fields is rejected
\* by create, update and validate_cron_expression, before any mutation of the
\* job table or of the persisted crontab.
C4_FieldCountRejectedBeforeMutation ==
    [][(last'.op \in {"create", "update", "validate"} /\ last'.fields = "notfive") =>
          /\ ~last'.success
          /\ cron' = cron
          /\ disk' = disk]_vars

\* C5: the second of two delete calls in a row on one schedule id reports
\* success with removed = false and no error, and after it no job tagged with
\* the id is left.
C5_SecondDeleteFindsNothing ==
    [][(last.op = "delete" /\ last'.op = "delete" /\ last'.id = last.id) =>
          /\ last'.success
          /\ ~last'.removed
          /\ last'.error = "none"
          /\ Count(cron', last'.id) = 0
          /\ Count(disk', last'.id) = 0]_vars

\* the schedule records deleted from the Ledger: ids handed out and gone
DeletedRecords == {id \in ScheduleIds : id < nextRowId /\ id \notin ledger}

\* C6: no stale job survives a delete or a replace: the crontab holds no job
\* tagged with the id of a schedule record deleted from the Ledger, and after
\* a successful create the only job tagged with the id carries the command
\* just built.
C6_NoStaleJob ==
    /\ \A id \in DeletedRecords : Count(disk, id) = 0
    /\ (last.op = "create" /\ last.success) =>
           /\ Count(cron, last.id) = 1
           /\ Count(disk, last.id) = 1
           /\ \A j \in TaggedJobs(cron, last.id) \cup TaggedJobs(disk, last.id) :
                  j.command = last.command

-----------------------------------------------------------------------------
(* Claims about the execution of a request, checked under RunSpec *)

Last(seq) == seq[Len(seq)]

\* the request's script reference, resolved against the scripts directory
ResolvedReference == resolve(PathJoin(resolve(scripts_directory), req.script_path))

\* a path below the scripts directory: the directory's components, then more
IsDescendant(path) ==
    LET root == PathParts(resolve(scripts_directory))
        parts == PathParts(path)
    IN  Len(parts) > Len(root) /\ SubSeq(parts, 1, Len(root)) = root

CarriesScriptExtension(path) == Lower(Suffix(path)) = <<".","p","s","1">>

\* C11: for a script reference whose resolved path is not a descendant of the
\* scripts directory or does not carry the .ps1 extension, neither the
\* synchronous nor the streaming execution ever has a subprocess.
C11_UntrustedReferenceNeverSpawned ==
    (req.given /\ ~(IsDescendant(ResolvedReference) /\ CarriesScriptExtension(ResolvedReference))) =>
        /\ sync.proc.state = "none"
        /\ stream.proc.state = "none"

IsTerminal(event) == event.type \in {"complete", "error"}

StdoutEvents == SelectSeq(stream.events, LAMBDA e : e.type = "stdout")

\* C12: the events yielded so far begin with a start event, a complete or
\* error event is the last one, the finished sequence ends with one, and the
\* stdout events carry the lines read so far, in the order they were written.
C12_StreamEventOrder ==
    /\ stream.events # <<>> => stream.events[1].type = "start"
    /\ \A i \in 1..Len(stream.events) :
           IsTerminal(stream.events[i]) => i = Len(stream.events)
    /\ stream.pc = "done" => (stream.events # <<>> /\ IsTerminal(Last(stream.events)))
    /\ Len(StdoutEvents) = stream.read
    /\ \A i \in 1..Len(StdoutEvents) :
           StdoutEvents[i].message = RStrip(req.behaviour.lines[i])

\* the case of C13: a request that passes the checks of the endpoint and the
\* validation, whose process starts, writes nothing to stderr and exits with
\* code 0 within the timeout, handled to the end by the streaming endpoint
C13_Case ==
    /\ req.given
    /\ stream.pc = "done"
    /\ EndpointCheck(req.script_path).status = 200
    /\ validate_script_path(FullPath, None)
    /\ req.behaviour.spawnOk
    /\ req.behaviour.err = <<>>
    /\ req.behaviour.code = 0
    /\ req.behaviour.exitAt # Never
    /\ req.behaviour.exitAt <= timeout

TimeoutErrorEmitted ==
    /\ stream.events # <<>>
    /\ Last(stream.events).type = "error"
    /\ Last(stream.events).message = TimedOutText

\* C14: in every state where the streaming mode has emitted the timeout error
\* event, the subprocess is no longer running.
C14_TimeoutKillsStreamedProcess ==
    TimeoutErrorEmitted => stream.proc.state # "running"

\* the readline loop waiting for a line or the end of stdout of a process
\* that never closes its stdout: no step of the generator follows
StreamBlockedForever ==
    /\ stream.pc = "reading"
    /\ stream.read = Len(req.behaviour.lines)
    /\ req.behaviour.closeAt = Never

\* C15: for every behaviour of the process, execute_script ends timed out
\* exactly when execute_script_stream ends in the timeout error event, and
\* the streaming mode is never left waiting on a process that keeps its
\* stdout open.
C15_TimeoutSameInBothModes ==
    /\ (sync.result # <<>> /\ stream.pc = "done" /\ Last(sync.trace) # "Failed") =>
           (Last(sync.trace) = "TimedOut" <=> TimeoutErrorEmitted)
    /\ Last(sync.trace) = "TimedOut" => ~StreamBlockedForever

\* C16: a synchronous execution that exceeds the timeout ends timed out with
\* the process killed, success false and the exit code -2, and no execution
\* whose process really exited is reported with that exit code.
C16_TimeoutSentinelDistinct ==
    sync.result # <<>> =>
        /\ Last(sync.trace) = "TimedOut" =>
               /\ sync.proc.state = "killed"
               /\ ~sync.result[1].value.success
               /\ sync.result[1].value.exit_code = -2
        /\ Last(sync.trace) = "Completed" => sync.result[1].value.exit_code # -2

\* the paths of the state machine Idle -> Validating -> Running ->
\* {Completed, TimedOut, Failed}, a failed validation going from Validating
\* to Failed, and their beginnings
SyncPaths ==
    { <<"Idle", "Validating", "Failed">>,
      <<"Idle", "Validating", "Running", "Completed">>,
      <<"Idle", "Validating", "Running", "TimedOut">>,
      <<"Idle", "Validating", "Running", "Failed">> }

SyncTerminalStates == {"Completed", "TimedOut", "Failed"}

C17_State ==
    /\ \E path \in SyncPaths : IsPrefix(sync.trace, path)
    /\ Len(sync.result) = IF Last(sync.trace) \in SyncTerminalStates THEN 1 ELSE 0
    /\ sync.result # <<>> =>
           /\ sync.result[1].kind = "return"
           /\ sync.result[1].value.success <=>
                  (sync.proc.state = "exited" /\ req.behaviour.code = 0)
           /\ (sync.proc.state = "exited" /\ req.behaviour.code # 0) =>
                  /\ ~sync.result[1].value.success
                  /\ sync.result[1].value.exit_code = req.behaviour.code
                  /\ sync.result[1].value.stderr = req.behaviour.err

\* C17: every call of execute_script goes through the states of the state
\* machine in order and returns one result, which stays as returned; success
\* is true exactly when a process ran and exited with code 0; an exit with
\* another code gives success false, that code, and the process's stderr.
C17_OneResultPerExecution ==
    /\ []C17_State
    /\ [][sync.result # <<>> => sync.result' = sync.result]_vars

\* a run that exited with code 1 and wrote to stderr, returned and logged
C17_Witness ==
    /\ sync.pc = "responded"
    /\ sync.trace = <<"Idle", "Validating", "Running", "Completed">>
    /\ sync.result # <<>>
    /\ sync.result[1].value.exit_code = 1
    /\ sync.result[1].value.stderr = <<"e">>
    /\ ~sync.result[1].value.success

RowsOf(endpoint) == Len(SelectSeq(executions, LAMBDA row : row.endpoint = endpoint))

\* C18: once an invocation accepted by an endpoint has ended, the executions
\* table holds exactly one row for it, and never two.
C18_EveryInvocationLoggedOnce ==
    /\ (sync.pc = "responded" /\ sync.status = 200) => RowsOf("execute") = 1
    /\ (stream.status = 200 /\ stream.pc = "done") => RowsOf("stream") = 1
    /\ RowsOf("execute") <= 1
    /\ RowsOf("stream") <= 1

-----------------------------------------------------------------------------
(* Claim about the errors of whole calls, checked under ErrorSpec *)

ScheduleErrors == {"fields", "grammar", "write", "notfound", "next_run"}

\* C19: every call of execute_script and of create, update, delete and toggle
\* returns a result value, whatever fails: no exception leaves the call, and
\* a failure is a result with success false that says what failed.
C19_ErrorsAreResults ==
    /\ last.op = "execute" =>
           /\ last.outcome.kind = "return"
           /\ last.outcome.value.success \in BOOLEAN
           /\ ~last.outcome.value.success =>
                  (last.outcome.value.exit_code # 0 /\ last.outcome.value.exit_code \in Int)
    /\ last.op \in {"create", "update", "delete", "toggle"} =>
           /\ last.success \in BOOLEAN
           /\ last.success => last.error = "none"
           /\ ~last.success => last.error \in ScheduleErrors

\* an executable that cannot be started, reported as a result
C19_Witness ==
    /\ last.op = "execute"
    /\ last.outcome.kind = "return"
    /\ last.outcome.value.exit_code = -3
    /\ last.outcome.value.stderr = ExceptionText

-----------------------------------------------------------------------------
(* Claim about list_schedules after create_schedule, checked under ListSpec *)

\* C20: after a successful create on a store with no other tagged jobs,
\* list_schedules returns exactly one entry, with the schedule id, the cron
\* expression and the enabled flag passed to create, and a next_run that is
\* given exactly when the schedule is enabled.
C20_ListShowsWhatWasCreated ==
    (listing.listed /\ last.op = "create" /\ last.success /\ listing.others = 0) =>
        /\ Len(listing.entries) = 1
        /\ listing.entries[1].schedule_id = listing.schedule_id
        /\ listing.entries[1].cron_expression = listing.cron_expression
        /\ listing.entries[1].enabled = listing.enabled
        /\ listing.entries[1].next_run.given <=> listing.enabled

-----------------------------------------------------------------------------
(* update and toggle on a schedule id that has no job *)

\* C21: an update_schedule or toggle_schedule call on a schedule id that has
\* no job in the table returns a failure result saying the schedule was not
\* found, and changes nothing: the table in memory and the crontab on disk are
\* what they were before the call, so nothing was written.
C21_MissingIdIsNoOp ==
    [][(last'.op \in {"update", "toggle"} /\ _find_job(cron, last'.id) = 0) =>
           /\ ~last'.success
           /\ last'.error = "notfound"
           /\ cron' = cron
           /\ disk' = disk]_vars

\* a toggle call found no job while the table in memory differed from the
\* crontab on disk, so that a write would have shown
C21_Witness ==
    /\ last.op = "toggle"
    /\ last.error = "notfound"
    /\ _find_job(cron, last.id) = 0
    /\ cron # disk

-----------------------------------------------------------------------------
(* list_schedules and the comments of the jobs *)

\* the schedule ids a comment can name in the model
TagIds == 0..9

\* the comment is the prefix followed by "_" and a schedule id
IsTag(comment) == \E n \in TagIds : comment = _get_job_comment(n)

TagId(comment) == CHOOSE n \in TagIds : comment = _get_job_comment(n)

\* one entry per job whose comment is a tag, in the order of the table
ExpectedEntries(table) ==
    LET own == SelectSeq(table, LAMBDA j : IsTag(j.comment))
    IN  [i \in 1..Len(own) |-> _job_to_dict(own[i], TagId(own[i].comment))]

\* C22: list_schedules returns one entry for every job of the table whose
\* comment is the prefix followed by "_" and a schedule id, under that id, and
\* no entry for any other job: a job with another comment is skipped.
C22_ListReportsExactlyTaggedJobs ==
    [][listing' # listing => listing'.entries = ExpectedEntries(cron)]_vars

-----------------------------------------------------------------------------
(* get_schedule_logs *)

\* the log names of a schedule, oldest first
RECURSIVE SortedForward(_)
SortedForward(names) ==
    IF names = {} THEN <<>>
    ELSE LET m == CHOOSE x \in names : \A y \in names \ {x} : TextLess(x, y)
         IN  <<m>> \o SortedForward(names \ {m})

RECURSIVE Chronological(_, _, _)
\* the lines of the files names[i..], each with its file, oldest first
Chronological(files, names, i) ==
    IF i > Len(names) THEN <<>>
    ELSE [k \in 1..Len(files[names[i]]) |->
              [file |-> names[i], line |-> Strip(files[names[i]][k])]]
         \o Chronological(files, names, i + 1)

\* the n most recent lines of the schedule's log files, oldest first
MostRecent(files, schedule_id, n) ==
    LET names == SortedForward({f \in DOMAIN files : GlobMatch(f, schedule_id)})
        all == Chronological(files, names, 1)
    IN  IF n >= Len(all) THEN all ELSE SubSeq(all, Len(all) - n + 1, Len(all))

OfFile(entries, f) == SelectSeq(entries, LAMBDA e : e.file = f)

\* C23: get_schedule_logs(schedule_id, N) returns at most N lines, and they
\* are the N most recent lines of the schedule's log files: from each file,
\* the lines that are among the last N of all the lines taken oldest file
\* first, so that a newer file is served before an older one.
C23_LogsAreTheMostRecent ==
    [][(last'.op = "logs" /\ last' # last) =>
           /\ Len(last'.outcome.logs) <= last'.lines
           /\ \A f \in DOMAIN logs :
                  OfFile(last'.outcome.logs, f)
                      = OfFile(MostRecent(logs, last'.id, last'.lines), f)]_vars

-----------------------------------------------------------------------------
(* The log file a scheduled run writes to *)

\* C27: whenever cron runs the job of schedule id on the day D, the output is
\* appended to the file schedule_{id}_{D as YYYYMMDD}.log of log_directory,
\* also when D is after the day the job's command was built on.
C27_RunLogsToFileOfItsDay ==
    (last.op = "fire" /\ IsTag(last.comment)) =>
        last.file = LogName(LogFile(TagId(last.comment), last.day))

-----------------------------------------------------------------------------
(* validate_cron_expression *)

\* five fields, each accepted by the grammar of its position
ValidSyntax(expression) ==
    LET parts == Split(Strip(expression))
    IN  Len(parts) = 5 /\ \A i \in 1..5 : CronFieldOk(parts[i], i)

\* C24: for every cron expression of five fields that the grammar accepts,
\* validate_cron_expression reports it valid and returns NextRunCount next
\* run times, each later than the one before, and leaves the job table and
\* the crontab on disk as they were.
C24_ValidExpressionHasNextRuns ==
    [][(last'.op = "validate" /\ last' # last /\ ValidSyntax(last'.expression)) =>
           /\ last'.success
           /\ Len(last'.next_runs) = NextRunCount
           /\ \A i \in 1..(Len(last'.next_runs) - 1) :
                  TextLess(last'.next_runs[i], last'.next_runs[i + 1])
           /\ cron' = cron
           /\ disk' = disk]_vars

-----------------------------------------------------------------------------
(* update_schedule re-deriving the script from the stored command *)

\* C25: after a successful update that gave parameters and no script path,
\* the job's command is the command built for the script path the job was
\* created with (and the new parameters): the path extracted from the stored
\* command is the path given to create_schedule.
C25_ParameterUpdateKeepsScript ==
    (listing.called /\ listing.updated /\ last.op = "update" /\ last.success) =>
        LET k == _find_job(cron, listing.schedule_id)
        IN  /\ k # 0
            /\ cron[k].command =
                   Strip(_build_command(listing.script_path, listing.parameters,
                                        listing.schedule_id, listing.day))

-----------------------------------------------------------------------------
(* Concurrent create_schedule calls *)

\* no two positions of the table hold a job with the comment of schedule_id
NoTwoTagged(table, schedule_id) ==
    \A i, j \in 1..Len(table) :
        (/\ table[i].comment = _get_job_comment(schedule_id)
         /\ table[j].comment = _get_job_comment(schedule_id)) => i = j

\* C26: when create_schedule calls on the same schedule id run at the same
\* time, interleaved at their delete, add-job and write steps, each write
\* atomic, neither the table in memory nor the crontab on disk ever holds two
\* jobs tagged with that schedule id.
C26_NoTwoJobsUnderInterleaving ==
    \A id \in ScheduleIds : NoTwoTagged(cron, id) /\ NoTwoTagged(disk, id)

-----------------------------------------------------------------------------
(* The table in memory and the crontab on disk *)

\* C28: after every create, update, delete or toggle call has returned, with
\* success or with failure, the manager's job table is equal to the crontab
\* on disk: a failed call leaves no added, removed or changed job in memory.
C28_TableEqualsCrontab ==
    last.op \in {"create", "update", "delete", "toggle"} => cron = disk

-----------------------------------------------------------------------------
(* What a call on one schedule does to the other jobs *)

\* the jobs of the table that are not tagged with schedule_id, in their order
Others(table, schedule_id) ==
    SelectSeq(table, LAMBDA j : j.comment # _get_job_comment(schedule_id))

\* the table in memory: the other jobs are what they were before the call
InMemoryFrame ==
    [][last'.op \in {"create", "update", "delete", "toggle"} =>
           Others(cron', last'.id) = Others(cron, last'.id)]_vars

\* C29: a create, update, delete or toggle call on one schedule id leaves
\* every job tagged with another schedule id, and every job not tagged by the
\* manager, with the command, schedule fields and enabled flag it had before
\* the call, in the table in memory and in the crontab on disk.
C29_OtherJobsUnchanged ==
    [][last'.op \in {"create", "update", "delete", "toggle"} =>
           /\ Others(cron', last'.id) = Others(cron, last'.id)
           /\ Others(disk', last'.id) = Others(disk, last'.id)]_vars

-----------------------------------------------------------------------------
(* Termination of a consumed stream *)

\* C30: a streaming execution that is consumed to its end terminates: for
\* every process that does finitely many writes and then exits, also one that
\* writes more to stderr than the pipe holds before it closes its stdout, the
\* generator eventually yields its last event, complete or error.
C30_ConsumedStreamTerminates ==
    (pipes.state # "none") ~>
        (pipes.pc = "done" /\ Last(pipes.events) \in {"complete", "error"})

=============================================================================
